---- MODULE Spec2Model ----
(***************************************************************************)
(* A model of pygmc (src/pygmc.py): the GMC Geiger counter client.         *)
(*                                                                         *)
(* Bytes are naturals 0..255, byte strings and text are sequences of      *)
(* codes, mnemonics are the ASCII codes of their letters.  The serial     *)
(* device is the environment: what it answers is chosen freely.           *)
(***************************************************************************)
EXTENDS Integers, Sequences, FiniteSets, TLC

VARIABLES
    pc,            \* where the caller is: idle / loop / sent / at_sent / returned / raised
    op,            \* the facade method being run, with its argument
    step,          \* send_command calls of this method that have returned
    command,       \* send_command's command argument of the call in progress
    response_format,   \* its response_format argument
    expected_response, \* its expected_response argument
    to_write,      \* set_config's encoded buffer
    wire,          \* every buffer handed to connection.write by this method, in order
    rx,            \* bytes the device has sent that read_all has not collected yet
    response,      \* what read_all returned to the last send_command
    result,        \* the method's return value
    err,           \* the exception the method raised
    raw_config,    \* codec: the buffer given to config_format.parse
    config,        \* codec: the outcome of config_format.parse
    built,         \* codec: the outcome of config_format.build
    reparsed,      \* codec: the outcome of config_format.parse on the built bytes
    t_pc,          \* threads: where each thread is in its send_command
    t_buffer,      \* threads: read_all's buffer of each thread
    t_response,    \* threads: what each thread's send_command returned
    t_answer,      \* threads: what the device sent in answer to each thread's command
    t_overlap,     \* threads: another thread's transaction overlapped this one
    t_calls,       \* threads: send_command calls each thread has started
    r_pc,          \* read loop: idle / reading / done
    r_buffer,      \* read loop: read_all's buffer
    r_line,        \* read loop: bytes that arrived and were not read yet
    r_sent,        \* read loop: every byte the device sent, in order
    r_response     \* read loop: what read_all returned

vars == <<pc, op, step, command, response_format, expected_response, to_write,
          wire, rx, response, result, err, raw_config, config, built, reparsed,
          t_pc, t_buffer, t_response, t_answer, t_overlap, t_calls,
          r_pc, r_buffer, r_line, r_sent, r_response>>

protocol_vars == <<pc, op, step, command, response_format, expected_response,
                   to_write, wire, rx, response, result, err>>

codec_vars == <<raw_config, config, built, reparsed>>

thread_vars == <<t_pc, t_buffer, t_response, t_answer, t_overlap, t_calls>>

read_vars == <<r_pc, r_buffer, r_line, r_sent, r_response>>

(***************************************************************************)
(* Python values                                                           *)
(***************************************************************************)
None == "None"

Min(S) == CHOOSE x \in S : \A y \in S : x <= y

\* cutting at the first zero byte, as a C string is read
RECURSIVE truncate_at_null(_)
truncate_at_null(data) ==
    IF data = <<>> \/ Head(data) = 0 THEN <<>>
    ELSE <<Head(data)>> \o truncate_at_null(Tail(data))

\* bytes.rstrip(b'\x00'), what NullStripped does on parsing
RECURSIVE rstrip(_)
rstrip(data) ==
    IF data # <<>> /\ data[Len(data)] = 0
    THEN rstrip(SubSeq(data, 1, Len(data) - 1))
    ELSE data

\* n copies of byte b
Repeat(b, n) == [i \in 1..n |-> b]

(***************************************************************************)
(* config_format: the field table, in declared order                      *)
(***************************************************************************)
FieldRows == <<
    [name |-> "power", kind |-> "Int8ub", size |-> 1],
    [name |-> "alarm", kind |-> "Int8ub", size |-> 1],
    [name |-> "speaker", kind |-> "Int8ub", size |-> 1],
    [name |-> "idle_display_mode", kind |-> "Int8ub", size |-> 1],
    [name |-> "back_light_timeout_seconds", kind |-> "Int8ub", size |-> 1],
    [name |-> "idle_title_display_mode", kind |-> "Int8ub", size |-> 1],
    [name |-> "alarm_CPM_value", kind |-> "Int16ub", size |-> 2],
    [name |-> "calib_CPM_0", kind |-> "Int16ub", size |-> 2],
    [name |-> "calib_uSv_0", kind |-> "Int32ub", size |-> 4],
    [name |-> "calib_CPM_1", kind |-> "Int16ub", size |-> 2],
    [name |-> "calib_uSv_1", kind |-> "Int32ub", size |-> 4],
    [name |-> "calib_CPM_2", kind |-> "Int16ub", size |-> 2],
    [name |-> "calib_uSv_2", kind |-> "Int32ub", size |-> 4],
    [name |-> "idle_text_state", kind |-> "Int8ub", size |-> 1],
    [name |-> "alarm_value_uSv", kind |-> "Int32ub", size |-> 4],
    [name |-> "alarm_type", kind |-> "Int8ub", size |-> 1],
    [name |-> "save_data_type", kind |-> "Int8ub", size |-> 1],
    [name |-> "swivel_display", kind |-> "Int8ub", size |-> 1],
    [name |-> "zoom", kind |-> "Int32ub", size |-> 4],
    [name |-> "SPI_data_save_address", kind |-> "Int24ub", size |-> 3],
    [name |-> "SPI_data_read_address", kind |-> "Int24ub", size |-> 3],
    [name |-> "power_saving_mode", kind |-> "Int8ub", size |-> 1],
    [name |-> "sensitivity_mode", kind |-> "Int8ub", size |-> 1],
    [name |-> "counter_delay", kind |-> "Int16ub", size |-> 2],
    [name |-> "display_contrast", kind |-> "Int8ub", size |-> 1],
    [name |-> "max_CPM", kind |-> "Int16ub", size |-> 2],
    [name |-> "unknown1", kind |-> "Int8ub", size |-> 1],
    [name |-> "large_font_mode", kind |-> "Int8ub", size |-> 1],
    [name |-> "LCD_back_light_level", kind |-> "Int8ub", size |-> 1],
    [name |-> "reverse_display_mode", kind |-> "Int8ub", size |-> 1],
    [name |-> "motion_detect", kind |-> "Int8ub", size |-> 1],
    [name |-> "battery_type", kind |-> "Int8ub", size |-> 1],
    [name |-> "baudrate", kind |-> "Int8ub", size |-> 1],
    [name |-> "CPM_speaker_on_off_calib", kind |-> "Int8ub", size |-> 1],
    [name |-> "graphic_drawing_mode", kind |-> "Int8ub", size |-> 1],
    [name |-> "LED_on_off", kind |-> "Int8ub", size |-> 1],
    [name |-> "unknown2", kind |-> "Int8ub", size |-> 1],
    [name |-> "save_threshold_value_uSv_m_nCPM", kind |-> "Int16ub", size |-> 2],
    [name |-> "save_threshold_mode", kind |-> "Int8ub", size |-> 1],
    [name |-> "save_threshold_value", kind |-> "Int32ub", size |-> 4],
    [name |-> "SSID", kind |-> "PaddedString", size |-> 64],
    [name |-> "password", kind |-> "PaddedString", size |-> 64],
    [name |-> "website", kind |-> "PaddedString", size |-> 32],
    [name |-> "URL", kind |-> "PaddedString", size |-> 32],
    [name |-> "user_ID", kind |-> "PaddedString", size |-> 32],
    [name |-> "counter_ID", kind |-> "PaddedString", size |-> 32],
    [name |-> "period", kind |-> "Int8ub", size |-> 1],
    [name |-> "WIFI_on_off", kind |-> "Int8ub", size |-> 1],
    [name |-> "text_status_mode", kind |-> "Int8ub", size |-> 1],
    [name |-> "fast_estimate_time", kind |-> "Int8ub", size |-> 1],
    [name |-> "third_party_output", kind |-> "Int8ub", size |-> 1],
    [name |-> "high_voltage_level_tube_1", kind |-> "Int8ub", size |-> 1],
    [name |-> "high_voltage_level_tube_2", kind |-> "Int8ub", size |-> 1],
    [name |-> "CPM_tube_mode", kind |-> "Int8ub", size |-> 1],
    [name |-> "CPM_tube_display", kind |-> "Int8ub", size |-> 1],
    [name |-> "voltage_display", kind |-> "Int8ub", size |-> 1],
    [name |-> "deadtime_enable", kind |-> "Int8ub", size |-> 1],
    [name |-> "deadtime_tube_1", kind |-> "Int16ub", size |-> 2],
    [name |-> "deadtime_tube_2", kind |-> "Int16ub", size |-> 2],
    [name |-> "medium_threshold", kind |-> "Int16ub", size |-> 2],
    [name |-> "high_threshold", kind |-> "Int16ub", size |-> 2],
    [name |-> "speaker_volume", kind |-> "Int8ub", size |-> 1],
    [name |-> "HV_reading", kind |-> "Int8ub", size |-> 1],
    [name |-> "target_HV", kind |-> "Int16ub", size |-> 2],
    [name |-> "HV_calib", kind |-> "Int8ub", size |-> 1],
    [name |-> "SS1", kind |-> "Bytes", size |-> 6],
    [name |-> "SS2", kind |-> "Bytes", size |-> 6],
    [name |-> "SS3", kind |-> "Bytes", size |-> 6],
    [name |-> "SS4", kind |-> "Bytes", size |-> 6],
    [name |-> "accuracy_display", kind |-> "Int8ub", size |-> 1],
    [name |-> "dose_alarm_0", kind |-> "Int8ub", size |-> 1],
    [name |-> "dose_alarm_1", kind |-> "Int8ub", size |-> 1],
    [name |-> "dose_alarm_2", kind |-> "Int8ub", size |-> 1],
    [name |-> "dose_alarm_3", kind |-> "Int8ub", size |-> 1],
    [name |-> "save_date_time", kind |-> "Bytes", size |-> 6],
    [name |-> "unused", kind |-> "Padding", size |-> 128]
>>

\* a Struct that lost its trailing Padding field
config_format_without_padding == SubSeq(FieldRows, 1, Len(FieldRows) - 1)

config_format == FieldRows

IntKinds == {"Int8ub", "Int16ub", "Int24ub", "Int32ub"}

FieldNames == {config_format[i].name : i \in DOMAIN config_format}

FieldIndex(name) == CHOOSE i \in DOMAIN config_format : config_format[i].name = name

\* the stream position before field i+1, walking the table from 0
RECURSIVE CursorAt(_)
CursorAt(i) == IF i = 0 THEN 0 ELSE CursorAt(i - 1) + config_format[i].size

Cursor == [i \in 0..Len(config_format) |-> CursorAt(i)]

\* config_format.sizeof()
sizeof == Cursor[Len(config_format)]

\* the fill pattern of Padding(128, b'\xff')
PaddingPattern == 255

Failure(e) == [ok |-> FALSE, error |-> e]

Success(v) == [ok |-> TRUE, value |-> v]

\* A Python int is kept as two 16-bit limbs, value = hi * 65536 + lo, so that
\* the 32-bit fields fit; a hi above 65535 is a value of 2^32 or more.
PyInt(hi, lo) == [hi |-> hi, lo |-> lo]

\* v * 256 + b
ShiftIn(v, b) ==
    LET low == v.lo * 256 + b
    IN  PyInt(v.hi * 256 + low \div 65536, low % 65536)

\* big-endian unsigned integer of Len(data) bytes
RECURSIVE BytesToInt(_)
BytesToInt(data) ==
    IF data = <<>> THEN PyInt(0, 0)
    ELSE ShiftIn(BytesToInt(SubSeq(data, 1, Len(data) - 1)), data[Len(data)])

\* v \div 256
ShiftOut(v) == PyInt(v.hi \div 256, (v.hi % 256) * 256 + v.lo \div 256)

\* the n low bytes of v, most significant first
RECURSIVE IntToBytes(_, _)
IntToBytes(v, n) ==
    IF n = 0 THEN <<>> ELSE Append(IntToBytes(ShiftOut(v), n - 1), v.lo % 256)

\* 0 <= v < 256^n, for the widths 1..4 of the table
FitsIn(v, n) ==
    /\ v.hi >= 0
    /\ v.lo \in 0..65535
    /\ CASE n = 1 -> v.hi = 0 /\ v.lo < 256
         [] n = 2 -> v.hi = 0
         [] n = 3 -> v.hi < 256
         [] n = 4 -> v.hi < 65536

\* bytes.decode('ascii')
decode_ascii(data) ==
    IF \E i \in DOMAIN data : data[i] >= 128
    THEN Failure("UnicodeDecodeError")
    ELSE Success(data)

\* str.encode('ascii')
encode_ascii(text) ==
    IF \E i \in DOMAIN text : text[i] >= 128
    THEN Failure("UnicodeEncodeError")
    ELSE Success(text)

\* parsing one field, a text keeping the zero bytes that fill its region
ParseField_unstripped(f, data) ==
    CASE f.kind \in IntKinds -> Success(BytesToInt(data))
      [] f.kind = "PaddedString" -> decode_ascii(data)
      [] f.kind = "Bytes" -> Success(data)
      [] f.kind = "Padding" -> Success(None)

\* parsing one field from the size bytes at the cursor
ParseField(f, data) ==
    CASE f.kind \in IntKinds -> Success(BytesToInt(data))
      [] f.kind = "PaddedString" -> decode_ascii(rstrip(data))
      [] f.kind = "Bytes" -> Success(data)
      [] f.kind = "Padding" -> Success(None)

\* building one field, cutting a text that is too long to the field's size
BuildField_truncating(f, v) ==
    CASE f.kind \in IntKinds ->
            IF FitsIn(v, f.size)
            THEN Success(IntToBytes(v, f.size))
            ELSE Failure("FormatFieldError")
      [] f.kind = "PaddedString" ->
            LET enc == encode_ascii(v) IN
            IF ~enc.ok THEN enc
            ELSE IF Len(enc.value) > f.size THEN Success(SubSeq(enc.value, 1, f.size))
            ELSE Success(enc.value \o Repeat(0, f.size - Len(enc.value)))
      [] f.kind = "Bytes" ->
            IF Len(v) = f.size THEN Success(v) ELSE Failure("StreamError")
      [] f.kind = "Padding" -> Success(Repeat(PaddingPattern, f.size))

\* building one field: the bytes written, or the error raised
BuildField(f, v) ==
    CASE f.kind \in IntKinds ->
            IF FitsIn(v, f.size)
            THEN Success(IntToBytes(v, f.size))
            ELSE Failure("FormatFieldError")
      [] f.kind = "PaddedString" ->
            LET enc == encode_ascii(v) IN
            IF ~enc.ok THEN enc
            ELSE IF Len(enc.value) > f.size THEN Failure("PaddingError")
            ELSE Success(enc.value \o Repeat(0, f.size - Len(enc.value)))
      [] f.kind = "Bytes" ->
            IF Len(v) = f.size THEN Success(v) ELSE Failure("StreamError")
      [] f.kind = "Padding" -> Success(Repeat(PaddingPattern, f.size))

\* config_format.parse(data): the Container, or the first field's error
parse(data) ==
    LET field(i) ==
            IF Cursor[i] > Len(data) THEN Failure("StreamError")
            ELSE ParseField(config_format[i],
                            SubSeq(data, Cursor[i - 1] + 1, Cursor[i]))
        parsed == [i \in DOMAIN config_format |-> field(i)]
        bad == {i \in DOMAIN config_format : ~parsed[i].ok}
    IN  IF bad # {} THEN parsed[Min(bad)]
        ELSE Success([n \in FieldNames |-> parsed[FieldIndex(n)].value])

RECURSIVE Concat(_, _)
Concat(pieces, n) ==
    IF n = 0 THEN <<>> ELSE Concat(pieces, n - 1) \o pieces[n].value

\* config_format.build(obj): the bytes, or the first field's error
build(obj) ==
    LET pieces == [i \in DOMAIN config_format |->
                      BuildField(config_format[i], obj[config_format[i].name])]
        bad == {i \in DOMAIN config_format : ~pieces[i].ok}
    IN  IF bad # {} THEN pieces[Min(bad)]
        ELSE Success(Concat(pieces, Len(config_format)))

(***************************************************************************)
(* Command mnemonics, as their ASCII codes                                *)
(***************************************************************************)
b_ECFG == <<69, 67, 70, 71>>    \* b'ECFG'
b_WCFG == <<87, 67, 70, 71>>    \* b'WCFG'
b_CFGUPDATE == <<67, 70, 71, 85, 80, 68, 65, 84, 69>>    \* b'CFGUPDATE'
b_SETDATETIME == <<83, 69, 84, 68, 65, 84, 69, 84, 73, 77, 69>>    \* b'SETDATETIME'
b_FACTORYRESET == <<70, 65, 67, 84, 79, 82, 89, 82, 69, 83, 69, 84>>    \* b'FACTORYRESET'
b_ALARM1 == <<65, 76, 65, 82, 77, 49>>    \* b'ALARM1'
b_ALARM0 == <<65, 76, 65, 82, 77, 48>>    \* b'ALARM0'
b_SPEAKER1 == <<83, 80, 69, 65, 75, 69, 82, 49>>    \* b'SPEAKER1'
b_SPEAKER0 == <<83, 80, 69, 65, 75, 69, 82, 48>>    \* b'SPEAKER0'
b_WiFiON == <<87, 105, 70, 105, 79, 78>>    \* b'WiFiON'
b_WiFiOFF == <<87, 105, 70, 105, 79, 70, 70>>    \* b'WiFiOFF'
b_SETDATEYY == <<83, 69, 84, 68, 65, 84, 69, 89, 89>>    \* b'SETDATEYY'
b_SETDATEMM == <<83, 69, 84, 68, 65, 84, 69, 77, 77>>    \* b'SETDATEMM'
b_SETDATEDD == <<83, 69, 84, 68, 65, 84, 69, 68, 68>>    \* b'SETDATEDD'
b_SETTIMEHH == <<83, 69, 84, 84, 73, 77, 69, 72, 72>>    \* b'SETTIMEHH'
b_SETTIMEMM == <<83, 69, 84, 84, 73, 77, 69, 77, 77>>    \* b'SETTIMEMM'
b_SETTIMESS == <<83, 69, 84, 84, 73, 77, 69, 83, 83>>    \* b'SETTIMESS'
b_SETSSID == <<83, 69, 84, 83, 83, 73, 68>>    \* b'SETSSID'
b_SETWIFIPW == <<83, 69, 84, 87, 73, 70, 73, 80, 87>>    \* b'SETWIFIPW'
b_GETVER == <<71, 69, 84, 86, 69, 82>>    \* b'GETVER'
b_GETSERIAL == <<71, 69, 84, 83, 69, 82, 73, 65, 76>>    \* b'GETSERIAL'

\* OK = b'\xaa'
OK == <<170>>

\* struct format strings, without the leading '!': one letter per element
Fmt_B == <<"B">>

\* '!I'
Fmt_I == <<"I">>

\* '!HHHx'
Fmt_HHHx == <<"H", "H", "H", "x">>    \* '!B'

(***************************************************************************)
(* Exceptions and return values                                            *)
(***************************************************************************)
NoError == [type |-> "None", args |-> <<>>]

BytesArg(b) == [type |-> "bytes", value |-> b]

\* the ValueError with the number of completed send_command calls added
MismatchError_with_count(expected, got) ==
    [type |-> "ValueError",
     args |-> <<BytesArg(expected), BytesArg(got), [type |-> "int", value |-> step]>>]

\* ValueError("Expected response '{}' but got '{}'".format(expected, response))
MismatchError(expected, got) ==
    [type |-> "ValueError", args |-> <<BytesArg(expected), BytesArg(got)>>]

Error(type) == [type |-> type, args |-> <<>>]

NoneValue == [kind |-> "None", val |-> <<>>]

BytesValue(b) == [kind |-> "bytes", val |-> b]

IntValue(n) == [kind |-> "int", val |-> <<n>>]

TupleValue(t) == [kind |-> "tuple", val |-> t]

StrValue(s) == [kind |-> "str", val |-> s]

\* a float read from a decimal literal: mantissa / 10^scale
FloatValue(mantissa, scale) == [kind |-> "float", val |-> <<mantissa, scale>>]

DatetimeValue(d) == [kind |-> "datetime", val |-> d]

ContainerValue(c) == [kind |-> "Container", val |-> c]

Raise(e) == [raised |-> TRUE, err |-> e, value |-> NoneValue]

Return(v) == [raised |-> FALSE, err |-> NoError, value |-> v]

(***************************************************************************)
(* Helpers of the module                                                   *)
(***************************************************************************)
\* hex_byte = lambda x: chr(x).encode('ascii')
hex_byte(x) ==
    IF x < 0 \/ x > 1114111 THEN Failure("ValueError")
    ELSE IF x >= 128 THEN Failure("UnicodeEncodeError")
    ELSE Success(<<x>>)

\* struct.pack('<H', address): least significant byte first
pack_H_little_endian(n) == <<n % 256, n \div 256>>

\* struct.pack('!H', address)
pack_H(n) == <<n \div 256, n % 256>>

\* struct.pack('!B', data_byte)
pack_B(n) == <<n>>

\* struct.calcsize of one format letter
ElementSize(c) == CASE c = "B" -> 1 [] c = "x" -> 1 [] c = "H" -> 2 [] c = "I" -> 4

RECURSIVE calcsize(_)
calcsize(fmt) == IF fmt = <<>> THEN 0 ELSE ElementSize(Head(fmt)) + calcsize(Tail(fmt))

\* struct.unpack(fmt, data) for data of the right length: pad bytes give no value
RECURSIVE unpack_from(_, _)
unpack_from(fmt, data) ==
    IF fmt = <<>> THEN <<>>
    ELSE LET n == ElementSize(Head(fmt))
             rest == unpack_from(Tail(fmt), SubSeq(data, n + 1, Len(data)))
         IN  IF Head(fmt) = "x" THEN rest
             ELSE <<BytesToInt(SubSeq(data, 1, n))>> \o rest

\* struct.unpack accepting data longer than the format
unpack_prefix(fmt, data) ==
    IF Len(data) < calcsize(fmt) THEN Failure("struct.error")
    ELSE Success(unpack_from(fmt, SubSeq(data, 1, calcsize(fmt))))

\* struct.unpack(fmt, data): the length must be the size of the format
unpack(fmt, data) ==
    IF Len(data) # calcsize(fmt) THEN Failure("struct.error")
    ELSE Success(unpack_from(fmt, data))

(***************************************************************************)
(* Text: str.split, int, the csv module, the enumeration                   *)
(***************************************************************************)
IsDigit(c) == c \in 48..57

\* the number written by a sequence of decimal digits
RECURSIVE DigitsValue(_)
DigitsValue(digits) ==
    IF digits = <<>> THEN 0
    ELSE DigitsValue(SubSeq(digits, 1, Len(digits) - 1)) * 10
         + (digits[Len(digits)] - 48)

\* the positions at which sep occurs in s
Occurrences(s, sep) ==
    {i \in 1..(Len(s) - Len(sep) + 1) : SubSeq(s, i, i + Len(sep) - 1) = sep}

\* str.split(sep) for a non-empty sep: the parts between the occurrences of sep,
\* found left to right without overlap
RECURSIVE split(_, _)
split(s, sep) ==
    IF Occurrences(s, sep) = {} THEN <<s>>
    ELSE LET at == Min(Occurrences(s, sep))
         IN  <<SubSeq(s, 1, at - 1)>> \o split(SubSeq(s, at + Len(sep), Len(s)), sep)

\* blank, \t, \n, \v, \f, \r
Whitespace == {32, 9, 10, 11, 12, 13}

\* str.strip()
RECURSIVE strip(_)
strip(s) ==
    IF s # <<>> /\ Head(s) \in Whitespace THEN strip(Tail(s))
    ELSE IF s # <<>> /\ s[Len(s)] \in Whitespace THEN strip(SubSeq(s, 1, Len(s) - 1))
    ELSE s

\* seq[i] of Python, counted from 0: IndexError past the end
item(seq, i) == IF i + 1 > Len(seq) THEN Failure("IndexError") ELSE Success(seq[i + 1])

\* int(text) for text made of an optional sign and decimal digits; everything
\* else (the empty string included) is a ValueError. The values drawn hold no
\* blank and no underscore.
int(text) ==
    LET signed == text # <<>> /\ Head(text) \in {43, 45}
        digits == IF signed THEN Tail(text) ELSE text
    IN  IF digits # <<>> /\ \A i \in DOMAIN digits : IsDigit(digits[i])
        THEN Success(IF signed /\ Head(text) = 45 THEN 0 - DigitsValue(digits)
                     ELSE DigitsValue(digits))
        ELSE Failure("ValueError")

\* AP_LIST_FIELDS
AP_LIST_FIELDS == <<"ecn", "ssid", "rssi", "mac", "channel", "freq_offset",
                    "freqcal_val", "pairwise_cipher", "group_cipher", "bgn", "wps">>

\* AP_STATUS_FIELDS
AP_STATUS_FIELDS == <<"ssid", "bssid", "channel", "rssi", "pci_en",
                      "reconn_interval", "listen_interval", "scan_mode", "pmf">>

\* class EncryptionMethod(IntEnum): the members by value, OPEN = 0 first
EncryptionMethodMembers ==
    <<"EncryptionMethod.OPEN", "EncryptionMethod.WEP", "EncryptionMethod.WPA_PSK",
      "EncryptionMethod.WPA2_PSK", "EncryptionMethod.WPA_WPA2_PSK",
      "EncryptionMethod.WPA2_ENTERPRISE", "EncryptionMethod.WPA3_PSK",
      "EncryptionMethod.WPA2_WPA3_PSK", "EncryptionMethod.WAPI_PSK">>

\* EncryptionMethod making a member of every integer
EncryptionMethod_open(n) ==
    Success([kind |-> IF n \in 0..8 THEN EncryptionMethodMembers[n + 1]
                      ELSE "EncryptionMethod.UNKNOWN",
             val |-> <<n>>])

\* EncryptionMethod(n): the member of value n, ValueError when there is none
EncryptionMethod(n) ==
    IF n \in 0..(Len(EncryptionMethodMembers) - 1)
    THEN Success([kind |-> EncryptionMethodMembers[n + 1], val |-> <<n>>])
    ELSE Failure("ValueError")

\* the end-of-line mark the csv reader feeds itself after each line
EOL == 0 - 2

\* the csv reader between two records: no field yet
ParseReset == [state |-> "START_RECORD", fields |-> <<>>, field |-> <<>>,
               error |-> FALSE]

parse_save_field(st, next) ==
    [st EXCEPT !.fields = Append(st.fields, st.field), !.field = <<>>,
               !.state = next]

parse_add_char(st, c, next) ==
    [st EXCEPT !.field = Append(st.field, c), !.state = next]

\* parse_process_char of the csv module for the excel dialect: delimiter ',',
\* quotechar '"', doublequote, no escapechar, not strict
parse_process_char(st, c) ==
    LET newline == c \in {10, 13}
        after == IF c = EOL THEN "START_RECORD" ELSE "EAT_CRNL"
        state == IF st.state = "START_RECORD" /\ c # EOL /\ ~newline
                 THEN "START_FIELD" ELSE st.state
    IN  CASE state = "START_RECORD" ->
                IF c = EOL THEN st ELSE [st EXCEPT !.state = "EAT_CRNL"]
          [] state = "START_FIELD" ->
                IF newline \/ c = EOL THEN parse_save_field(st, after)
                ELSE IF c = 34 THEN [st EXCEPT !.state = "IN_QUOTED_FIELD"]
                ELSE IF c = 44 THEN parse_save_field(st, "START_FIELD")
                ELSE parse_add_char(st, c, "IN_FIELD")
          [] state = "IN_FIELD" ->
                IF newline \/ c = EOL THEN parse_save_field(st, after)
                ELSE IF c = 44 THEN parse_save_field(st, "START_FIELD")
                ELSE parse_add_char(st, c, "IN_FIELD")
          [] state = "IN_QUOTED_FIELD" ->
                IF c = EOL THEN st
                ELSE IF c = 34 THEN [st EXCEPT !.state = "QUOTE_IN_QUOTED_FIELD"]
                ELSE parse_add_char(st, c, "IN_QUOTED_FIELD")
          [] state = "QUOTE_IN_QUOTED_FIELD" ->
                IF c = 34 THEN parse_add_char(st, c, "IN_QUOTED_FIELD")
                ELSE IF c = 44 THEN parse_save_field(st, "START_FIELD")
                ELSE IF newline \/ c = EOL THEN parse_save_field(st, after)
                ELSE parse_add_char(st, c, "IN_FIELD")
          [] state = "EAT_CRNL" ->
                IF newline THEN st
                ELSE IF c = EOL THEN [st EXCEPT !.state = "START_RECORD"]
                ELSE [st EXCEPT !.error = TRUE]

\* the characters of one line from the i-th on, then the end-of-line mark
RECURSIVE parse_line(_, _, _)
parse_line(st, line, i) ==
    IF st.error THEN st
    ELSE IF i > Len(line) THEN parse_process_char(st, EOL)
    ELSE parse_line(parse_process_char(st, line[i]), line, i + 1)

\* Reader_iternext from the i-th element of the input on: lines are taken until
\* a record is complete. Gives the row and the place of the next element, or
\* stop at the end of the input, or the error.
RECURSIVE read_record(_, _, _)
read_record(st, input, i) ==
    IF i > Len(input)
    THEN IF st.field # <<>> \/ st.state = "IN_QUOTED_FIELD"
         THEN [kind |-> "row", row |-> Append(st.fields, st.field), next |-> i]
         ELSE [kind |-> "stop", row |-> <<>>, next |-> i]
    ELSE LET after == parse_line(st, input[i], 1)
         IN  IF after.error THEN [kind |-> "csv.Error", row |-> <<>>, next |-> i]
             ELSE IF after.state = "START_RECORD"
             THEN [kind |-> "row", row |-> after.fields, next |-> i + 1]
             ELSE read_record(after, input, i + 1)

reader_next(input, i) == read_record(ParseReset, input, i)

\* the dict of DictReader for one row: names paired with values in order, None
\* for the names left over, the values left over as a list under the key None
dict_of_row(fieldnames, row) ==
    [k \in {fieldnames[j] : j \in DOMAIN fieldnames}
           \cup (IF Len(row) > Len(fieldnames) THEN {None} ELSE {}) |->
        IF k = None
        THEN [kind |-> "list", val |-> SubSeq(row, Len(fieldnames) + 1, Len(row))]
        ELSE LET j == CHOOSE j \in DOMAIN fieldnames : fieldnames[j] = k
             IN  IF j <= Len(row) THEN StrValue(row[j]) ELSE NoneValue]

\* DictReader.__next__: the next row that is not empty, as a dict
RECURSIVE DictReader_next(_, _, _)
DictReader_next(input, fieldnames, i) ==
    LET got == reader_next(input, i)
    IN  IF got.kind = "row" /\ got.row = <<>>
        THEN DictReader_next(input, fieldnames, got.next)
        ELSE IF got.kind = "row"
        THEN [kind |-> "row", dict |-> dict_of_row(fieldnames, got.row),
              next |-> got.next]
        ELSE [kind |-> got.kind, dict |-> <<>>, next |-> got.next]

(***************************************************************************)
(* Bounds and the inputs drawn from them                                   *)
(***************************************************************************)
\* the device answers a command with at most MaxResp bytes
MaxResp == 2

\* a text value is at most MaxOver code units longer than its field
MaxOver == 1

\* each thread makes at most MaxCalls send_command calls
MaxCalls == 2

\* the callers sharing one GMCConnection
Threads == {1, 2}

RECURSIVE SeqsUpTo(_, _)
SeqsUpTo(S, n) ==
    IF n = 0 THEN {<<>>}
    ELSE LET shorter == SeqsUpTo(S, n - 1)
         IN  shorter \cup {Append(s, b) : s \in shorter, b \in S}

\* the acknowledgement byte and one that is not
RespBytes == {170, 85}

Responses == SeqsUpTo(RespBytes, MaxResp)

Years == {1999, 2000, 2024, 2127, 2128}

Dates == [year : Years, month : {1, 12}, day : {2, 31}]

Times == [hour : {7, 23}, minute : {0, 30}, second : {15, 59}]

DateTimes == {[year |-> y, month |-> 12, day |-> 31, hour |-> 23,
               minute |-> 59, second |-> 58] : y \in Years}

\* '', 'ab' and a string with a non-ASCII character
Texts == {<<>>, <<97, 98>>, <<233>>}

TextFields == {i \in DOMAIN config_format : config_format[i].kind = "PaddedString"}

\* 256^size - 1
MaxInt(size) ==
    CASE size = 1 -> PyInt(0, 255)
      [] size = 2 -> PyInt(0, 65535)
      [] size = 3 -> PyInt(255, 65535)
      [] size = 4 -> PyInt(65535, 65535)

\* a configuration with every field small
ConfigLow ==
    [n \in FieldNames |->
        LET f == config_format[FieldIndex(n)] IN
        CASE f.kind \in IntKinds -> PyInt(0, 1)
          [] f.kind = "PaddedString" -> <<>>
          [] f.kind = "Bytes" -> Repeat(0, f.size)
          [] f.kind = "Padding" -> None]

\* a configuration with every field at its largest
ConfigHigh ==
    [n \in FieldNames |->
        LET f == config_format[FieldIndex(n)] IN
        CASE f.kind \in IntKinds -> MaxInt(f.size)
          [] f.kind = "PaddedString" -> Repeat(65 + (FieldIndex(n) % 26), f.size)
          [] f.kind = "Bytes" -> [i \in 1..f.size |-> 255 - i]
          [] f.kind = "Padding" -> None]

\* ConfigLow with one text field longer than its width
ConfigOverlong ==
    {[ConfigLow EXCEPT ![config_format[i].name] =
            Repeat(66, config_format[i].size + over)] :
        i \in TextFields, over \in 1..MaxOver}

\* ConfigLow with 'a\x00b\x00' in every text field: a zero inside and one at
\* the end
ConfigNul ==
    [n \in FieldNames |->
        IF FieldIndex(n) \in TextFields THEN <<97, 0, 98, 0>> ELSE ConfigLow[n]]

ConfigSamples == {ConfigLow, ConfigHigh, ConfigNul} \cup ConfigOverlong


\* buffers as a device could return them for GETCFG: 384 bytes of fields and
\* 128 reserved bytes of 0xFF
BufferZero == [i \in 1..512 |-> IF i > 384 THEN 255 ELSE 0]

\* text regions full of non-zero ASCII, with a zero inside two of them
BufferCount == [i \in 1..512 |-> IF i > 384 THEN 255 ELSE i % 128]

\* byte values written over one position of a buffer
ByteSamples == {0, 65, 128, 255}

\* what the device may answer to the read commands: nothing, a well-formed
\* answer, and answers that are too short, too long or not decodable
VersionAnswers == {<<>>, <<71, 77, 67>>, <<71, 200>>}

CountAnswers == {<<>>, <<0, 0, 1>>, <<0, 0, 1, 44>>, <<255, 255, 255, 255>>,
                 <<0, 0, 1, 44, 0>>}

GyroAnswers == {<<>>, <<0, 1, 0, 2, 0, 3>>, <<0, 1, 1, 0, 255, 255, 170>>,
                <<0, 1, 0, 2, 0, 3, 170, 0>>}

\* '', '4.2v', '12.50v', 'v', '4.2v' + NUL + 'x', 'abv'
VoltAnswers == {<<>>, <<52, 46, 50, 118>>, <<49, 50, 46, 53, 48, 118>>, <<118>>,
                <<52, 46, 50, 118, 0, 120>>, <<97, 98, 118>>}

\* answers cut short of the 512 bytes of a configuration; whole buffers are
\* parsed by get_config_parse
ConfigAnswers == {<<>>, <<0>>, SubSeq(BufferCount, 1, 16)}

DatetimeAnswers == {<<>>, <<24, 12, 31>>, <<24, 12, 31, 23, 59, 58>>,
                    <<24, 2, 29, 0, 0, 0, 170>>, <<24, 13, 1, 0, 0, 0, 170>>,
                    <<255, 1, 1, 0, 0, 0, 170>>}

SerialAnswers == {<<>>, <<241, 18, 0, 10, 255, 1, 160>>}

TemperatureAnswers == {<<>>, <<25, 5, 0, 170>>}

\* what a scan can find, one entry for each access point: the encryption code
\* and the values after it, quoted or not, as the adapter lists them
\*   ApNet1: +CWLAP:(3,"Net1",-45)
\*   ApComma: +CWLAP:(0,"a,b")
\*   ApUnknown: +CWLAP:(9,"X")
\*   ApFull: +CWLAP:(8,"H",-6,"m",1,0,0,4,4,7,1)
\*   ApExtra: +CWLAP:(4,"",-9,"m",1,0,0,4,4,7,1,z)
ApEntries ==
   {[ecn |-> 3,
     values |-> <<[quoted |-> TRUE, text |-> <<78, 101, 116, 49>>],
                  [quoted |-> FALSE, text |-> <<45, 52, 53>>]>>],
    [ecn |-> 0,
     values |-> <<[quoted |-> TRUE, text |-> <<97, 44, 98>>]>>],
    [ecn |-> 9,
     values |-> <<[quoted |-> TRUE, text |-> <<88>>]>>],
    [ecn |-> 8,
     values |-> <<[quoted |-> TRUE, text |-> <<72>>],
                  [quoted |-> FALSE, text |-> <<45, 54>>],
                  [quoted |-> TRUE, text |-> <<109>>],
                  [quoted |-> FALSE, text |-> <<49>>],
                  [quoted |-> FALSE, text |-> <<48>>],
                  [quoted |-> FALSE, text |-> <<48>>],
                  [quoted |-> FALSE, text |-> <<52>>],
                  [quoted |-> FALSE, text |-> <<52>>],
                  [quoted |-> FALSE, text |-> <<55>>],
                  [quoted |-> FALSE, text |-> <<49>>]>>],
    [ecn |-> 4,
     values |-> <<[quoted |-> TRUE, text |-> <<>>],
                  [quoted |-> FALSE, text |-> <<45, 57>>],
                  [quoted |-> TRUE, text |-> <<109>>],
                  [quoted |-> FALSE, text |-> <<49>>],
                  [quoted |-> FALSE, text |-> <<48>>],
                  [quoted |-> FALSE, text |-> <<48>>],
                  [quoted |-> FALSE, text |-> <<52>>],
                  [quoted |-> FALSE, text |-> <<52>>],
                  [quoted |-> FALSE, text |-> <<55>>],
                  [quoted |-> FALSE, text |-> <<49>>],
                  [quoted |-> FALSE, text |-> <<122>>]>>]}

\* the scans: no access point, one, or two of the short ones
Scans ==
    {<<>>} \cup {<<e>> : e \in ApEntries}
    \cup {<<e, f>> : e, f \in {e \in ApEntries : Len(e.values) <= 2}}

\* the association the adapter reports: the values of the content line
\*   +CWJAP:"N1","ab",6,-4,0,0,0,0,0
\*   +CWJAP:N1,"ab",6
\*   +CWJAP:"a b","c",1,-1,0,0,0,0,1
ApStatuses ==
    {<<[quoted |-> TRUE, text |-> <<78, 49>>],
       [quoted |-> TRUE, text |-> <<97, 98>>],
       [quoted |-> FALSE, text |-> <<54>>],
       [quoted |-> FALSE, text |-> <<45, 52>>],
       [quoted |-> FALSE, text |-> <<48>>],
       [quoted |-> FALSE, text |-> <<48>>],
       [quoted |-> FALSE, text |-> <<48>>],
       [quoted |-> FALSE, text |-> <<48>>],
       [quoted |-> FALSE, text |-> <<48>>]>>,
     <<[quoted |-> FALSE, text |-> <<78, 49>>],
       [quoted |-> TRUE, text |-> <<97, 98>>],
       [quoted |-> FALSE, text |-> <<54>>]>>,
     <<[quoted |-> TRUE, text |-> <<97, 32, 98>>],
       [quoted |-> TRUE, text |-> <<99>>],
       [quoted |-> FALSE, text |-> <<49>>],
       [quoted |-> FALSE, text |-> <<45, 49>>],
       [quoted |-> FALSE, text |-> <<48>>],
       [quoted |-> FALSE, text |-> <<48>>],
       [quoted |-> FALSE, text |-> <<48>>],
       [quoted |-> FALSE, text |-> <<48>>],
       [quoted |-> FALSE, text |-> <<49>>]>>}

\* the decimal digits of a natural number
RECURSIVE Digits(_)
Digits(n) == IF n < 10 THEN <<48 + n>> ELSE Append(Digits(n \div 10), 48 + (n % 10))

RenderField(f) == IF f.quoted THEN <<34>> \o f.text \o <<34>> ELSE f.text

\* the parts with sep between them
RECURSIVE Join(_, _)
Join(parts, sep) ==
    IF parts = <<>> THEN <<>>
    ELSE IF Len(parts) = 1 THEN parts[1]
    ELSE parts[1] \o sep \o Join(Tail(parts), sep)

CRLF == <<13, 10>>

\* '+CWLAP:(' + the values with commas between + ')'
ApLine(e) ==
    <<43, 67, 87, 76, 65, 80, 58, 40>>
    \o Join(<<Digits(e.ecn)>> \o [i \in DOMAIN e.values |-> RenderField(e.values[i])],
            <<44>>)
    \o <<41>>

\* the adapter's answer to CWLAP: the status line 'OK', then one line for each
\* access point, with CRLF between the lines, or CRLF after each line
CwlapResponse(scan, terminated) ==
    Join(<<<<79, 75>>>> \o [i \in DOMAIN scan |-> ApLine(scan[i])],
         CRLF)
    \o (IF terminated THEN CRLF ELSE <<>>)

\* also: nothing, a byte that is not ASCII, a line 1 that is not a list entry
CwlapAnswers ==
    {CwlapResponse(scan, terminated) : scan \in Scans, terminated \in BOOLEAN}
    \cup {<<>>, <<200>>, <<79, 75, 13, 10, 98, 117, 115, 121>>}

\* the adapter's answer to CWJAP?: the echo and the content line
CwjapResponse(status) ==
    <<65, 84, 43, 67, 87, 74, 65, 80, 63>> \o CRLF \o <<43, 67, 87, 74, 65, 80, 58>>
    \o Join([i \in DOMAIN status |-> RenderField(status[i])], <<44>>)

\* also: nothing, 'No AP' for a content line, a content line with no value
CwjapAnswers ==
    {CwjapResponse(status) : status \in ApStatuses}
    \cup {<<>>, <<65, 84, 43, 67, 87, 74, 65, 80, 63, 13, 10, 78, 111, 32, 65, 80, 13, 10, 13, 10, 79, 75>>,
          <<65, 84, 43, 67, 87, 74, 65, 80, 63, 13, 10, 43, 67, 87, 74, 65, 80, 58>>}

\* answers to the commands whose lines are handed back as they are:
\* nothing, 'OK', 'AT\r\n\r\nOK\r\n', a byte that is not ASCII
PlainAtAnswers == {<<>>, <<79, 75>>, <<65, 84, 13, 10, 13, 10, 79, 75, 13, 10>>, <<200>>}

\* answers to CIPSTAMAC?: the echo and '+CIPSTAMAC:"aa:bb"', the same with blanks
\* around the value, a line 1 without 'MAC:', the echo alone
MacAnswers == {<<65, 84, 43, 67, 73, 80, 83, 84, 65, 77, 65, 67, 63, 13, 10, 43, 67, 73, 80, 83, 84, 65, 77, 65, 67, 58, 34, 97, 97, 58, 98, 98, 34, 13, 10, 13, 10, 79, 75>>,
               <<65, 84, 43, 67, 73, 80, 83, 84, 65, 77, 65, 67, 63, 13, 10, 43, 67, 73, 80, 83, 84, 65, 77, 65, 67, 58, 32, 34, 97, 97, 58, 98, 98, 34, 32, 13, 10, 13, 10, 79, 75>>,
               <<65, 84, 43, 67, 73, 80, 83, 84, 65, 77, 65, 67, 63, 13, 10, 69, 82, 82, 79, 82>>,
               <<65, 84, 43, 67, 73, 80, 83, 84, 65, 77, 65, 67, 63>>}

\* the lengths a raw buffer is cut to
RawLengths == {256, 512}

RawSamples ==
    {SubSeq([b EXCEPT ![p] = v], 1, n) :
        b \in {BufferZero, BufferCount}, p \in 1..512, v \in ByteSamples,
        n \in RawLengths}

(***************************************************************************)
(* GMCConnection                                                           *)
(***************************************************************************)
\* b'<' + command + b'>'
Frame_one_bracket(cmd) == <<60>> \o cmd \o <<62>>

\* to_send = b'<' + command + b'>>'
Frame(cmd) == <<60>> \o cmd \o <<62, 62>>

\* self.connection.read(): one byte, or nothing when none came within the timeout
connection_read(pending) == IF pending = <<>> THEN <<>> ELSE <<Head(pending)>>

\* buffer = new_data, losing what was read before
overwrite(buffer, new_data) == new_data

\* buffer = new_data + buffer, the newest bytes first
prepend(buffer, new_data) == new_data \o buffer

\* buffer += new_data
accumulate(buffer, new_data) == buffer \o new_data

\* read_all: read after read until one returns nothing
RECURSIVE read_loop(_, _)
read_loop(buffer, pending) ==
    LET new_data == connection_read(pending) IN
    IF new_data = <<>> THEN buffer
    ELSE read_loop(accumulate(buffer, new_data),
                   SubSeq(pending, Len(new_data) + 1, Len(pending)))

read_all(pending) == read_loop(<<>>, pending)

\* send_command comparing only a non-empty response with the expected one
send_command_outcome_truthy(resp, fmt, expected) ==
    IF expected # <<>> /\ resp # <<>> /\ resp # expected
    THEN Raise(MismatchError(expected, resp))
    ELSE IF fmt # <<>>
         THEN LET unpacked == unpack(fmt, resp) IN
              IF ~unpacked.ok THEN Raise(Error(unpacked.error))
              ELSE IF Len(unpacked.value) = 1 THEN Return(IntValue(unpacked.value[1]))
              ELSE Return(TupleValue(unpacked.value))
         ELSE Return(BytesValue(resp))

\* send_command accepting any response that starts with the expected one
send_command_outcome_prefix(resp, fmt, expected) ==
    IF /\ expected # <<>>
       /\ \/ Len(resp) < Len(expected)
          \/ SubSeq(resp, 1, Len(expected)) # expected
    THEN Raise(MismatchError(expected, resp))
    ELSE IF fmt # <<>>
         THEN LET unpacked == unpack(fmt, resp) IN
              IF ~unpacked.ok THEN Raise(Error(unpacked.error))
              ELSE IF Len(unpacked.value) = 1 THEN Return(IntValue(unpacked.value[1]))
              ELSE Return(TupleValue(unpacked.value))
         ELSE Return(BytesValue(resp))

\* send_command that takes an empty response for a timeout of the channel
send_command_outcome_timeout(resp, fmt, expected) ==
    IF resp = <<>> THEN Raise(Error("ChannelTimeout"))
    ELSE IF expected # <<>> /\ resp # expected THEN Raise(MismatchError(expected, resp))
    ELSE IF fmt # <<>>
         THEN LET unpacked == unpack(fmt, resp) IN
              IF ~unpacked.ok THEN Raise(Error(unpacked.error))
              ELSE IF Len(unpacked.value) = 1 THEN Return(IntValue(unpacked.value[1]))
              ELSE Return(TupleValue(unpacked.value))
         ELSE Return(BytesValue(resp))

\* send_command after read_all: the checks on the response and the return value
send_command_outcome(resp, fmt, expected) ==
    IF expected # <<>> /\ resp # expected THEN Raise(MismatchError(expected, resp))
    ELSE IF fmt # <<>>
         THEN LET unpacked == unpack(fmt, resp) IN
              IF ~unpacked.ok THEN Raise(Error(unpacked.error))
              ELSE IF Len(unpacked.value) = 1 THEN Return(IntValue(unpacked.value[1]))
              ELSE Return(TupleValue(unpacked.value))
         ELSE Return(BytesValue(resp))

\* send_command up to self.write(to_send): one write; the device then answers
\* with one of answers
send_command_answered(cmd, fmt, expected, answers) ==
    /\ command' = cmd
    /\ response_format' = fmt
    /\ expected_response' = expected
    /\ wire' = Append(wire, Frame(cmd))
    /\ rx' \in answers
    /\ pc' = "sent"

send_command(cmd, fmt, expected) == send_command_answered(cmd, fmt, expected, Responses)

\* an exception raised before anything is written
raise(type) ==
    /\ pc' = "raised"
    /\ err' = Error(type)
    /\ UNCHANGED <<command, response_format, expected_response, wire, rx>>

(***************************************************************************)
(* GMCGeigerCounter                                                        *)
(***************************************************************************)
\* methods that end with the send_command they make, and return nothing
AckMethods == {"erase_config", "reload_config", "factory_reset", "alarm_on",
               "alarm_off", "speaker_on", "speaker_off", "wifi_on", "wifi_off",
               "set_SSID", "set_wifi_password"}

\* methods that return what their one send_command returns
ValueMethods == {"set_datetime", "power_on", "power_off", "reboot", "get_CPM",
                 "get_CPS", "get_CPML", "get_CPMH", "get_CPSL", "get_CPSH",
                 "get_gyro", "get_temperature"}

\* methods made of several send_command calls
MultiStepMethods == {"set_config", "set_date", "set_time"}

\* how many send_command calls the method in progress makes in all
StepsOf(o) ==
    CASE o.name = "set_config" -> Len(to_write)
      [] o.name \in {"set_date", "set_time"} -> 3
      [] OTHER -> 1

call(name, arg) == op' = [name |-> name, arg |-> arg]

simple(name, cmd) ==
    /\ call(name, None)
    /\ send_command(cmd, <<>>, OK)
    /\ UNCHANGED <<step, to_write, response, result, err, codec_vars, thread_vars, read_vars>>

\* a method of one send_command(mnemonic, expected_response=OK), by mistake
plain_acked(name, cmd) ==
    /\ call(name, None)
    /\ send_command(cmd, <<>>, OK)
    /\ UNCHANGED <<step, to_write, response, result, err, codec_vars, thread_vars, read_vars>>

\* a method of one send_command(mnemonic): no format, no expected response
plain(name, cmd) ==
    /\ call(name, None)
    /\ send_command(cmd, <<>>, <<>>)
    /\ UNCHANGED <<step, to_write, response, result, err, codec_vars, thread_vars, read_vars>>

\* send_command(b'POWERON')
power_on ==
    /\ pc = "idle"
    /\ plain("power_on", <<80, 79, 87, 69, 82, 79, 78>>)

\* send_command(b'POWEROFF')
power_off ==
    /\ pc = "idle"
    /\ plain("power_off", <<80, 79, 87, 69, 82, 79, 70, 70>>)

\* send_command(b'REBOOT')
reboot ==
    /\ pc = "idle"
    /\ plain("reboot", <<82, 69, 66, 79, 79, 84>>)

erase_config ==
    /\ pc = "idle"
    /\ simple("erase_config", b_ECFG)

reload_config ==
    /\ pc = "idle"
    /\ simple("reload_config", b_CFGUPDATE)

factory_reset ==
    /\ pc = "idle"
    /\ simple("factory_reset", b_FACTORYRESET)

alarm_on ==
    /\ pc = "idle"
    /\ simple("alarm_on", b_ALARM1)

alarm_off ==
    /\ pc = "idle"
    /\ simple("alarm_off", b_ALARM0)

speaker_on ==
    /\ pc = "idle"
    /\ simple("speaker_on", b_SPEAKER1)

speaker_off ==
    /\ pc = "idle"
    /\ simple("speaker_off", b_SPEAKER0)

wifi_on ==
    /\ pc = "idle"
    /\ simple("wifi_on", b_WiFiON)

wifi_off ==
    /\ pc = "idle"
    /\ simple("wifi_off", b_WiFiOFF)

with_text(name, cmd) ==
    \E text \in Texts :
        /\ call(name, text)
        /\ LET enc == encode_ascii(text) IN
           IF enc.ok THEN /\ send_command(cmd \o enc.value, <<>>, OK)
                          /\ UNCHANGED err
           ELSE raise(enc.error)
        /\ UNCHANGED <<step, to_write, response, result, codec_vars, thread_vars, read_vars>>

set_SSID ==
    /\ pc = "idle"
    /\ with_text("set_SSID", b_SETSSID)

set_wifi_password ==
    /\ pc = "idle"
    /\ with_text("set_wifi_password", b_SETWIFIPW)

\* the six hex_byte calls of set_datetime, left to right
datetime_bytes(dt) ==
    LET parts == <<hex_byte(dt.year - 2000), hex_byte(dt.month), hex_byte(dt.day),
                   hex_byte(dt.hour), hex_byte(dt.minute), hex_byte(dt.second)>>
        bad == {i \in DOMAIN parts : ~parts[i].ok}
    IN  IF bad # {} THEN parts[Min(bad)]
        ELSE Success(parts[1].value \o parts[2].value \o parts[3].value \o
                     parts[4].value \o parts[5].value \o parts[6].value)

set_datetime ==
    /\ pc = "idle"
    /\ \E dt \in DateTimes :
        /\ call("set_datetime", dt)
        /\ LET enc == datetime_bytes(dt) IN
           IF enc.ok THEN /\ send_command(b_SETDATETIME \o enc.value, <<>>, OK)
                          /\ UNCHANGED err
           ELSE raise(enc.error)
        /\ UNCHANGED <<step, to_write, response, result, codec_vars, thread_vars, read_vars>>

\* datetime.datetime(year, month, day, hour, minute, second): ValueError for a
\* component out of range
DaysInMonth(year, month) ==
    IF month \in {4, 6, 9, 11} THEN 30
    ELSE IF month # 2 THEN 31
    ELSE IF year % 4 = 0 /\ (year % 100 # 0 \/ year % 400 = 0) THEN 29
    ELSE 28

datetime(year, month, day, hour, minute, second) ==
    IF /\ year \in 1..9999
       /\ month \in 1..12
       /\ day \in 1..DaysInMonth(year, month)
       /\ hour \in 0..23
       /\ minute \in 0..59
       /\ second \in 0..59
    THEN Success([year |-> year, month |-> month, day |-> day, hour |-> hour,
                  minute |-> minute, second |-> second])
    ELSE Failure("ValueError")

\* parse_datetime: the first six bytes, each one its own number (ord(chr(b)) is
\* b); unpacking fewer than six values is a ValueError
parse_datetime(timestamp_bytes) ==
    IF Len(timestamp_bytes) < 6 THEN Failure("ValueError")
    ELSE datetime(timestamp_bytes[1] + 2000, timestamp_bytes[2], timestamp_bytes[3],
                  timestamp_bytes[4], timestamp_bytes[5], timestamp_bytes[6])

\* set_config: to_write = config_format.build(config), then the loop starts
set_config ==
    /\ pc = "idle"
    /\ \E cfg \in ConfigSamples :
        /\ call("set_config", cfg)
        /\ LET enc == build(cfg) IN
           IF enc.ok THEN /\ to_write' = enc.value
                          /\ pc' = "loop"
                          /\ UNCHANGED err
           ELSE /\ pc' = "raised"
                /\ err' = Error(enc.error)
                /\ UNCHANGED to_write
        /\ UNCHANGED <<step, command, response_format, expected_response, wire, rx,
                       response, result, codec_vars, thread_vars, read_vars>>

\* one iteration of set_config's loop: address is the loop index
write_config_byte ==
    /\ pc = "loop"
    /\ op.name = "set_config"
    /\ step < Len(to_write)
    /\ LET address == step
           data_byte == to_write[step + 1]
       IN  send_command(b_WCFG \o pack_H(address) \o pack_B(data_byte), <<>>, OK)
    /\ UNCHANGED <<op, step, to_write, response, result, err, codec_vars, thread_vars, read_vars>>

set_date ==
    /\ pc = "idle"
    /\ \E date \in Dates :
        /\ call("set_date", date)
        /\ pc' = "loop"
        /\ UNCHANGED <<step, command, response_format, expected_response, to_write,
                       wire, rx, response, result, err, codec_vars, thread_vars, read_vars>>

set_time ==
    /\ pc = "idle"
    /\ \E time \in Times :
        /\ call("set_time", time)
        /\ pc' = "loop"
        /\ UNCHANGED <<step, command, response_format, expected_response, to_write,
                       wire, rx, response, result, err, codec_vars, thread_vars, read_vars>>

\* the sub-commands taken in the opposite order
sub_command_reversed(name, at, cmd, value) ==
    /\ op.name = name
    /\ step = 2 - at
    /\ LET enc == hex_byte(value) IN
       IF enc.ok THEN /\ send_command(cmd \o enc.value, Fmt_B, OK)
                      /\ UNCHANGED err
       ELSE raise(enc.error)
    /\ UNCHANGED <<op, step, to_write, response, result, codec_vars, thread_vars, read_vars>>

\* a sub-command of set_date or set_time: mnemonic + hex_byte(value), '!B', OK
sub_command(name, at, cmd, value) ==
    /\ op.name = name
    /\ step = at
    /\ LET enc == hex_byte(value) IN
       IF enc.ok THEN /\ send_command(cmd \o enc.value, Fmt_B, OK)
                      /\ UNCHANGED err
       ELSE raise(enc.error)
    /\ UNCHANGED <<op, step, to_write, response, result, codec_vars, thread_vars, read_vars>>

set_date_yy ==
    /\ pc = "loop"
    /\ sub_command("set_date", 0, b_SETDATEYY, op.arg.year - 2000)

set_date_mm ==
    /\ pc = "loop"
    /\ sub_command("set_date", 1, b_SETDATEMM, op.arg.month)

set_date_dd ==
    /\ pc = "loop"
    /\ sub_command("set_date", 2, b_SETDATEDD, op.arg.day)

set_time_ss ==
    /\ pc = "loop"
    /\ sub_command("set_time", 0, b_SETTIMESS, op.arg.second)

set_time_mm ==
    /\ pc = "loop"
    /\ sub_command("set_time", 1, b_SETTIMEMM, op.arg.minute)

set_time_hh ==
    /\ pc = "loop"
    /\ sub_command("set_time", 2, b_SETTIMEHH, op.arg.hour)

\* a method of one send_command(mnemonic) or send_command(mnemonic, format)
getter(name, cmd, fmt, answers) ==
    /\ call(name, None)
    /\ send_command_answered(cmd, fmt, <<>>, answers)
    /\ UNCHANGED <<step, to_write, response, result, err, codec_vars, thread_vars, read_vars>>

get_ver ==
    /\ pc = "idle"
    /\ getter("get_ver", b_GETVER, <<>>, VersionAnswers)

\* send_command(b'GETCPM', '!I')
get_CPM ==
    /\ pc = "idle"
    /\ getter("get_CPM", <<71, 69, 84, 67, 80, 77>>, Fmt_I, CountAnswers)

\* send_command(b'GETCPS', '!I')
get_CPS ==
    /\ pc = "idle"
    /\ getter("get_CPS", <<71, 69, 84, 67, 80, 83>>, Fmt_I, CountAnswers)

\* send_command(b'GETCPML', '!I')
get_CPML ==
    /\ pc = "idle"
    /\ getter("get_CPML", <<71, 69, 84, 67, 80, 77, 76>>, Fmt_I, CountAnswers)

\* send_command(b'GETCPMH', '!I')
get_CPMH ==
    /\ pc = "idle"
    /\ getter("get_CPMH", <<71, 69, 84, 67, 80, 77, 72>>, Fmt_I, CountAnswers)

\* send_command(b'GETCPSL', '!I')
get_CPSL ==
    /\ pc = "idle"
    /\ getter("get_CPSL", <<71, 69, 84, 67, 80, 83, 76>>, Fmt_I, CountAnswers)

\* send_command(b'GETCPSH', '!I')
get_CPSH ==
    /\ pc = "idle"
    /\ getter("get_CPSH", <<71, 69, 84, 67, 80, 83, 72>>, Fmt_I, CountAnswers)

\* send_command(b'GETVOLT')
get_battery_voltage ==
    /\ pc = "idle"
    /\ getter("get_battery_voltage", <<71, 69, 84, 86, 79, 76, 84>>, <<>>, VoltAnswers)

\* send_command(b'GETCFG')
get_config ==
    /\ pc = "idle"
    /\ getter("get_config", <<71, 69, 84, 67, 70, 71>>, <<>>, ConfigAnswers)

\* send_command(b'GETDATETIME')
get_datetime ==
    /\ pc = "idle"
    /\ getter("get_datetime", <<71, 69, 84, 68, 65, 84, 69, 84, 73, 77, 69>>, <<>>, DatetimeAnswers)

get_serial ==
    /\ pc = "idle"
    /\ getter("get_serial", b_GETSERIAL, <<>>, SerialAnswers)

\* send_command(b'GETGYRO', '!HHHx')
get_gyro ==
    /\ pc = "idle"
    /\ getter("get_gyro", <<71, 69, 84, 71, 89, 82, 79>>, Fmt_HHHx, GyroAnswers)

\* send_command(b'GETTEMP')
get_temperature ==
    /\ pc = "idle"
    /\ getter("get_temperature", <<71, 69, 84, 84, 69, 77, 80>>, <<>>, TemperatureAnswers)

\* bytes.hex(): two lowercase hexadecimal digits for each byte
HexDigit(n) == IF n < 10 THEN 48 + n ELSE 87 + n

RECURSIVE hex(_)
hex(data) ==
    IF data = <<>> THEN <<>>
    ELSE <<HexDigit(Head(data) \div 16), HexDigit(Head(data) % 16)>> \o hex(Tail(data))

\* ctypes.create_string_buffer(response).value: the bytes before the first NUL
RECURSIVE string_buffer_value(_)
string_buffer_value(data) ==
    IF data = <<>> \/ Head(data) = 0 THEN <<>>
    ELSE <<Head(data)>> \o string_buffer_value(Tail(data))

\* mantissa / 10^scale without the trailing zeros of the fraction
RECURSIVE Normal(_, _)
Normal(mantissa, scale) ==
    IF scale > 0 /\ mantissa % 10 = 0 THEN Normal(mantissa \div 10, scale - 1)
    ELSE FloatValue(mantissa, scale)

\* float(b) for b made of digits and dots: digits with at most one dot and at
\* least one digit are a number, everything else (the empty string included)
\* is a ValueError. The answers drawn hold no sign, blank, exponent, inf or nan.
float(b) ==
    LET dots == {i \in DOMAIN b : b[i] = 46}
        digits == SelectSeq(b, IsDigit)
    IN  IF /\ \A i \in DOMAIN b : IsDigit(b[i]) \/ b[i] = 46
           /\ Cardinality(dots) <= 1
           /\ digits # <<>>
        THEN Success(Normal(DigitsValue(digits),
                            IF dots = {} THEN 0 ELSE Len(b) - Min(dots)))
        ELSE Failure("ValueError")

\* what the method does with the value its send_command returned
after_send_command(name, value) ==
    CASE name \in ValueMethods -> Return(value)
      [] name = "get_ver" ->
            LET text == decode_ascii(value.val) IN
            IF text.ok THEN Return(StrValue(text.value)) ELSE Raise(Error(text.error))
      [] name = "get_serial" -> Return(StrValue(hex(value.val)))
      [] name = "get_battery_voltage" ->
            LET chars == string_buffer_value(value.val)
                number == float(SubSeq(chars, 1, Len(chars) - 1))
            IN  IF number.ok THEN Return(number.value) ELSE Raise(Error(number.error))
      [] name = "get_config" ->
            LET container == parse(value.val) IN
            IF container.ok THEN Return(ContainerValue(container.value))
            ELSE Raise(Error(container.error))
      [] name = "get_datetime" ->
            LET stamp == parse_datetime(value.val) IN
            IF stamp.ok THEN Return(DatetimeValue(stamp.value))
            ELSE Raise(Error(stamp.error))
      [] OTHER -> Return(NoneValue)

\* send_command from response = self.read_all() on, and the caller's next line
send_command_return ==
    /\ pc = "sent"
    /\ LET resp == read_all(rx)
           sent == send_command_outcome(resp, response_format, expected_response)
           out == IF sent.raised THEN sent ELSE after_send_command(op.name, sent.value)
       IN  /\ response' = resp
           /\ rx' = <<>>
           /\ IF out.raised
              THEN /\ pc' = "raised"
                   /\ err' = out.err
                   /\ UNCHANGED <<step, result>>
              ELSE /\ step' = step + 1
                   /\ pc' = IF step + 1 < StepsOf(op) THEN "loop" ELSE "returned"
                   /\ result' = out.value
                   /\ UNCHANGED err
    /\ UNCHANGED <<op, command, response_format, expected_response, to_write, wire,
                   codec_vars, thread_vars, read_vars>>

ListValue(l) == [kind |-> "list", val |-> l]

DictValue(d) == [kind |-> "dict", val |-> d]

\* at_command up to time.sleep(wait): one write of '<AT+' + command + '>>'; the
\* adapter answers while the caller sleeps
at_command(name, arg, cmd, answers) ==
    /\ call(name, arg)
    /\ LET enc == encode_ascii(cmd) IN
       IF enc.ok
       THEN /\ wire' = Append(wire, <<60, 65, 84, 43>> \o enc.value \o <<62, 62>>)
            /\ rx' \in answers
            /\ pc' = "at_sent"
            /\ UNCHANGED err
       ELSE /\ pc' = "raised"
            /\ err' = Error(enc.error)
            /\ UNCHANGED <<wire, rx>>
    /\ UNCHANGED <<step, command, response_format, expected_response, to_write,
                   response, result, codec_vars, thread_vars, read_vars>>

\* at_command('CWLAP')
list_wifi_networks ==
    /\ pc = "idle"
    /\ at_command("list_wifi_networks", None, <<67, 87, 76, 65, 80>>, CwlapAnswers)

\* at_command('CWQAP')
disconnect_wifi ==
    /\ pc = "idle"
    /\ at_command("disconnect_wifi", None, <<67, 87, 81, 65, 80>>, PlainAtAnswers)

\* at_command('CWAUTOCONN=' + ('1' if enable else '0'))
wifi_auto_connect ==
    /\ pc = "idle"
    /\ \E enable \in BOOLEAN :
          at_command("wifi_auto_connect", enable,
                     <<67, 87, 65, 85, 84, 79, 67, 79, 78, 78, 61>> \o (IF enable THEN <<49>> ELSE <<48>>),
                     PlainAtAnswers)

\* at_command('CIPSTAMAC?')
get_MAC_address ==
    /\ pc = "idle"
    /\ at_command("get_MAC_address", None, <<67, 73, 80, 83, 84, 65, 77, 65, 67, 63>>, MacAnswers)

\* at_command('CWJAP?')
get_wifi_status ==
    /\ pc = "idle"
    /\ at_command("get_wifi_status", None, <<67, 87, 74, 65, 80, 63>>, CwjapAnswers)

\* [d.split(':(')[1][:-1] for d in raw_response[1:]]: the first line that has no
\* ':(' raises IndexError
list_wifi_data(raw_response) ==
    LET rest == Tail(raw_response)
        parts == [i \in DOMAIN rest |-> item(split(rest[i], <<58, 40>>), 1)]
    IN  IF \E i \in DOMAIN rest : ~parts[i].ok THEN Failure("IndexError")
        ELSE Success([i \in DOMAIN rest |->
                         SubSeq(parts[i].value, 1, Len(parts[i].value) - 1)])

\* the loop of list_wifi_networks from the i-th line of data on
RECURSIVE list_wifi_loop(_, _, _)
list_wifi_loop(data, i, networks) ==
    LET got == DictReader_next(data, AP_LIST_FIELDS, i)
    IN  IF got.kind = "stop" THEN Return(ListValue(networks))
        ELSE IF got.kind # "row" THEN Raise(Error(got.kind))
        ELSE LET code == int(got.dict["ecn"].val)
                 ecn == EncryptionMethod(code.value)
             IN  IF ~code.ok
                 THEN Raise([type |-> code.error,
                             args |-> <<[type |-> "str", value |-> got.dict["ecn"].val]>>])
                 ELSE IF ~ecn.ok
                 THEN Raise([type |-> ecn.error,
                             args |-> <<[type |-> "int", value |-> code.value]>>])
                 ELSE list_wifi_loop(data, got.next,
                                     Append(networks, [got.dict EXCEPT !["ecn"] = ecn.value]))

\* what the method does with the lines at_command returned
after_at_command(name, lines) ==
    CASE name = "list_wifi_networks" ->
            LET data == list_wifi_data(lines) IN
            IF ~data.ok THEN Raise(Error(data.error))
            ELSE list_wifi_loop(data.value, 1, <<>>)
      [] name = "get_MAC_address" ->
            LET line == item(lines, 1)
                part == item(split(line.value, <<77, 65, 67, 58>>), 1)
            IN  IF ~line.ok THEN Raise(Error(line.error))
                ELSE IF ~part.ok THEN Raise(Error(part.error))
                ELSE Return(StrValue(SubSeq(strip(part.value), 2,
                                            Len(strip(part.value)) - 1)))
      [] name = "get_wifi_status" ->
            LET line == item(lines, 1)
                text == SubSeq(line.value, 8, Len(line.value))
                chars == [i \in DOMAIN text |-> <<text[i]>>]
                got == DictReader_next(chars, AP_STATUS_FIELDS, 1)
            IN  IF ~line.ok THEN Raise(Error(line.error))
                ELSE IF got.kind = "stop" THEN Raise(Error("StopIteration"))
                ELSE IF got.kind # "row" THEN Raise(Error(got.kind))
                ELSE Return(DictValue(got.dict))
      [] OTHER -> Return(ListValue(lines))

\* at_command from read_all on, and the caller's next lines
at_command_return ==
    /\ pc = "at_sent"
    /\ LET resp == read_all(rx)
           text == decode_ascii(resp)
           out == IF ~text.ok THEN Raise(Error(text.error))
                  ELSE after_at_command(op.name, split(text.value, CRLF))
       IN  /\ response' = resp
           /\ rx' = <<>>
           /\ IF out.raised
              THEN /\ pc' = "raised"
                   /\ err' = out.err
                   /\ UNCHANGED result
              ELSE /\ pc' = "returned"
                   /\ result' = out.value
                   /\ UNCHANGED err
    /\ UNCHANGED <<op, step, command, response_format, expected_response, to_write,
                   wire, codec_vars, thread_vars, read_vars>>

InitProtocol ==
    /\ pc = "idle"
    /\ op = [name |-> "idle", arg |-> None]
    /\ step = 0
    /\ command = <<>>
    /\ response_format = <<>>
    /\ expected_response = <<>>
    /\ to_write = <<>>
    /\ wire = <<>>
    /\ rx = <<>>
    /\ response = <<>>
    /\ result = NoneValue
    /\ err = NoError

CodecIdle ==
    /\ raw_config = <<>>
    /\ config = Failure("pending")
    /\ built = Failure("pending")
    /\ reparsed = Failure("pending")

ThreadsIdle ==
    /\ t_pc = [t \in Threads |-> "idle"]
    /\ t_buffer = [t \in Threads |-> <<>>]
    /\ t_response = [t \in Threads |-> <<>>]
    /\ t_answer = [t \in Threads |-> <<>>]
    /\ t_overlap = [t \in Threads |-> FALSE]
    /\ t_calls = [t \in Threads |-> 0]

ReadIdle ==
    /\ r_pc = "idle"
    /\ r_buffer = <<>>
    /\ r_line = <<>>
    /\ r_sent = <<>>
    /\ r_response = <<>>

Init == InitProtocol /\ CodecIdle /\ ThreadsIdle /\ ReadIdle

Next ==
    \/ erase_config
    \/ reload_config
    \/ factory_reset
    \/ alarm_on
    \/ alarm_off
    \/ speaker_on
    \/ speaker_off
    \/ wifi_on
    \/ wifi_off
    \/ set_SSID
    \/ set_wifi_password
    \/ set_datetime
    \/ set_config
    \/ write_config_byte
    \/ set_date
    \/ set_date_yy
    \/ set_date_mm
    \/ set_date_dd
    \/ set_time
    \/ set_time_ss
    \/ set_time_mm
    \/ set_time_hh
    \/ send_command_return
    \/ power_on
    \/ power_off
    \/ reboot
    \/ get_ver
    \/ get_CPM
    \/ get_CPS
    \/ get_CPML
    \/ get_CPMH
    \/ get_CPSL
    \/ get_CPSH
    \/ get_battery_voltage
    \/ get_config
    \/ get_datetime
    \/ get_serial
    \/ get_gyro
    \/ get_temperature
    \/ list_wifi_networks
    \/ disconnect_wifi
    \/ wifi_auto_connect
    \/ get_MAC_address
    \/ get_wifi_status
    \/ at_command_return

Spec == Init /\ [][Next]_vars

(***************************************************************************)
(* The configuration codec on its own: a buffer is parsed and the value    *)
(* built again, or a value is built                                        *)
(***************************************************************************)
Pending == Failure("pending")

\* get_config: config_format.parse(raw_config)
get_config_parse ==
    /\ config = Pending
    /\ config' = parse(raw_config)
    /\ UNCHANGED <<raw_config, built, reparsed, protocol_vars, thread_vars, read_vars>>

\* set_config: to_write = config_format.build(config)
set_config_build ==
    /\ config.ok
    /\ built = Pending
    /\ built' = build(config.value)
    /\ UNCHANGED <<raw_config, config, reparsed, protocol_vars, thread_vars, read_vars>>

\* get_config after set_config: config_format.parse on the bytes that were built
get_config_reparse ==
    /\ built.ok
    /\ reparsed = Pending
    /\ reparsed' = parse(built.value)
    /\ UNCHANGED <<raw_config, config, built, protocol_vars, thread_vars, read_vars>>

InitCodec ==
    /\ InitProtocol
    /\ ThreadsIdle
    /\ ReadIdle
    /\ built = Pending
    /\ reparsed = Pending
    /\ \/ raw_config \in RawSamples /\ config = Pending
       \/ raw_config = <<>> /\ config \in {Success(v) : v \in ConfigSamples}

NextCodec == get_config_parse \/ set_config_build \/ get_config_reparse

SpecCodec == InitCodec /\ [][NextCodec]_vars

(***************************************************************************)
(* Two threads calling send_command on one GMCConnection, which holds no   *)
(* lock: the statements of send_command and read_all interleave            *)
(***************************************************************************)
\* what each thread asks: get_ver and get_serial
ThreadCommand == <<b_GETVER, b_GETSERIAL>>

\* what the device may send in answer before the channel falls idle: nothing, a
\* part or the whole of its answer, which differs between the two commands
DeviceAnswers == <<{<<>>, <<71>>, <<71, 77>>}, {<<>>, <<241>>, <<241, 18>>}>>

InFlight == {t \in Threads : t_pc[t] = "reading"}

\* send_command up to self.write(to_send), and buffer = b'' of read_all
thread_write(t) ==
    /\ t_pc[t] \in {"idle", "done"}
    /\ t_calls[t] < MaxCalls
    /\ \E answer \in DeviceAnswers[t] :
          /\ wire' = Append(wire, Frame(ThreadCommand[t]))
          /\ rx' = rx \o answer
          /\ t_answer' = [t_answer EXCEPT ![t] = answer]
    /\ t_pc' = [t_pc EXCEPT ![t] = "reading"]
    /\ t_buffer' = [t_buffer EXCEPT ![t] = <<>>]
    /\ t_calls' = [t_calls EXCEPT ![t] = @ + 1]
    /\ t_overlap' = [u \in Threads |->
                        IF InFlight \ {t} = {} THEN (u # t /\ t_overlap[u])
                        ELSE (u = t \/ u \in InFlight \/ t_overlap[u])]
    /\ UNCHANGED <<pc, op, step, command, response_format, expected_response,
                   to_write, response, result, err, t_response, codec_vars,
                   read_vars>>

\* one turn of read_all's loop, and send_command's return when it ends
thread_read(t) ==
    /\ t_pc[t] = "reading"
    /\ LET new_data == connection_read(rx) IN
       IF new_data = <<>>
       THEN /\ t_response' = [t_response EXCEPT ![t] = t_buffer[t]]
            /\ t_pc' = [t_pc EXCEPT ![t] = "done"]
            /\ UNCHANGED <<t_buffer, rx>>
       ELSE /\ t_buffer' = [t_buffer EXCEPT ![t] = accumulate(@, new_data)]
            /\ rx' = SubSeq(rx, Len(new_data) + 1, Len(rx))
            /\ UNCHANGED <<t_response, t_pc>>
    /\ UNCHANGED <<pc, op, step, command, response_format, expected_response,
                   to_write, wire, response, result, err, t_answer, t_overlap,
                   t_calls, codec_vars, read_vars>>

NextThreads == \E t \in Threads : thread_write(t) \/ thread_read(t)

SpecThreads == Init /\ [][NextThreads]_vars

(***************************************************************************)
(* One send_command with the device delivering its answer byte by byte     *)
(* while read_all loops: each connection.read() is a step                  *)
(***************************************************************************)
\* the device sends at most MaxSent bytes in all
MaxSent == 4

\* send_command up to self.write(to_send), and buffer = b'' of read_all
read_all_start ==
    /\ r_pc = "idle"
    /\ wire' = Append(wire, Frame(b_GETVER))
    /\ r_buffer' = <<>>
    /\ r_pc' = "reading"
    /\ UNCHANGED <<pc, op, step, command, response_format, expected_response,
                   to_write, rx, response, result, err, r_line, r_sent, r_response,
                   codec_vars, thread_vars>>

\* one more byte arrives from the device
device_deliver ==
    /\ r_pc \in {"reading", "done"}
    /\ Len(r_sent) < MaxSent
    /\ \E b \in RespBytes :
          /\ r_line' = Append(r_line, b)
          /\ r_sent' = Append(r_sent, b)
    /\ UNCHANGED <<protocol_vars, r_pc, r_buffer, r_response, codec_vars, thread_vars>>

\* one turn of the loop: self.connection.read() gives the byte that is waiting,
\* or nothing after the timeout when none is, and then read_all returns
read_all_turn ==
    /\ r_pc = "reading"
    /\ LET new_data == connection_read(r_line) IN
       IF new_data = <<>>
       THEN /\ r_response' = r_buffer
            /\ r_pc' = "done"
            /\ UNCHANGED <<r_buffer, r_line>>
       ELSE /\ r_buffer' = accumulate(r_buffer, new_data)
            /\ r_line' = SubSeq(r_line, Len(new_data) + 1, Len(r_line))
            /\ UNCHANGED <<r_response, r_pc>>
    /\ UNCHANGED <<protocol_vars, r_sent, codec_vars, thread_vars>>

NextRead == read_all_start \/ device_deliver \/ read_all_turn

\* the caller is not stopped inside the loop: a turn that can be taken is taken
SpecRead == Init /\ [][NextRead]_vars /\ WF_vars(read_all_turn)

(***************************************************************************)
(* Properties of the command layer, checked under Spec                     *)
(***************************************************************************)
Finished == pc \in {"returned", "raised"}

\* the WCFG frame for one address and one byte: '<WCFG', the address as two
\* bytes most significant first, the byte, '>>'
WcfgFrame(a, b) == <<60, 87, 67, 70, 71, a \div 256, a % 256, b, 62, 62>>

WcfgFramesInOrder(n) ==
    /\ Len(wire) = n
    /\ build(op.arg).ok
    /\ \A a \in 0..(n - 1) : wire[a + 1] = WcfgFrame(a, build(op.arg).value[a + 1])

\* C1 as stated: a set_config whose every write was acknowledged has issued
\* exactly 256 WCFG commands, for the addresses 0..255 in ascending order, each
\* with the byte of the encoded buffer at that address.
C1_Original_256Writes ==
    (op.name = "set_config" /\ pc = "returned") => WcfgFramesInOrder(256)

\* C1 amended: a set_config whose every write was acknowledged has issued exactly
\* 512 WCFG commands, for the addresses 0..511 in ascending order, each carrying
\* its address as two big-endian bytes and the byte of the encoded buffer at
\* that address.
C1_SetConfigWrites512 ==
    (op.name = "set_config" /\ pc = "returned") => WcfgFramesInOrder(512)

C1_Witness ==
    /\ op.name = "set_config"
    /\ pc = "returned"
    /\ Len(wire) > 256
    /\ wire[512] = WcfgFrame(511, 255)

\* the methods of C2: one command, acknowledgement required
AckCommands == {"alarm_on", "alarm_off", "speaker_on", "speaker_off", "wifi_on",
                "wifi_off", "erase_config", "reload_config", "factory_reset",
                "set_SSID", "set_wifi_password", "set_datetime"}

\* C2: when an acknowledgement-requiring single command has collected anything
\* but the one byte 0xAA (another byte, nothing, 0xAA and more), the method has
\* raised the mismatch ValueError and its one frame is all it wrote.
C2_AckMismatchFails ==
    (op.name \in AckCommands /\ Finished /\ wire # <<>> /\ response # <<170>>)
        => /\ pc = "raised"
           /\ err.type = "ValueError"
           /\ err.args # <<>>
           /\ wire = <<Frame(command)>>

C2_Witness ==
    /\ op.name = "alarm_on"
    /\ pc = "raised"
    /\ response = <<170, 170>>
    /\ Len(wire) = 1

\* C3: during set_config the frames on the wire are those of the addresses
\* 0, 1, 2, ... each once and in order (no rewrite, no rollback); address a+1 is
\* written only after a was acknowledged with 0xAA; and when the acknowledgement
\* of address k fails, set_config raises that failure with the frames of 0..k
\* written and none for a later address.
C3_SetConfigStopsAtFirstFailure ==
    op.name = "set_config" =>
        /\ \A i \in DOMAIN wire : wire[i] = WcfgFrame(i - 1, to_write[i])
        /\ Len(wire) <= step + 1
        /\ (step > 0 /\ pc \in {"loop", "returned"}) => response = <<170>>
        /\ (pc = "sent") => Len(wire) = step + 1
        /\ (pc = "raised" /\ wire # <<>>) =>
              /\ Len(wire) = step + 1
              /\ response # <<170>>
              /\ err = MismatchError(<<170>>, response)

C3_Witness ==
    /\ op.name = "set_config"
    /\ pc = "raised"
    /\ step = 300
    /\ Len(wire) = 301
    /\ response = <<85>>

\* a sub-step of a multi-step method has failed
SubStepFailed ==
    /\ op.name \in MultiStepMethods
    /\ pc = "raised"
    /\ op.name = "set_config" => wire # <<>>

\* C4 as stated: the error of a failed sub-step reports how many sub-steps
\* completed before it.
C4_Original_ErrorReportsCount ==
    SubStepFailed =>
        \E i \in DOMAIN err.args : err.args[i].type = "int" /\ err.args[i].value = step

\* C4 amended: the error of a failed sub-step is that sub-step's own exception:
\* for a failed acknowledgement the ValueError made of the expected and the
\* collected bytes and nothing else, for a failed hex_byte an exception with no
\* argument; no count of completed sub-steps is part of it.
C4_ErrorCarriesNoCount ==
    SubStepFailed =>
        IF Len(wire) = step + 1
        THEN err = [type |-> "ValueError",
                    args |-> <<[type |-> "bytes", value |-> <<170>>],
                               [type |-> "bytes", value |-> response]>>]
        ELSE err.type \in {"ValueError", "UnicodeEncodeError"} /\ err.args = <<>>

C4_Witness ==
    /\ op.name = "set_time"
    /\ pc = "raised"
    /\ step = 2
    /\ err.type = "ValueError"

IsPrefix(s, t) == Len(s) <= Len(t) /\ \A i \in DOMAIN s : s[i] = t[i]

\* '<SETDATE' + two letters + one byte + '>>'
SetDateFrame(l1, l2, v) == <<60, 83, 69, 84, 68, 65, 84, 69, l1, l2, v, 62, 62>>

\* '<SETTIME' + two letters + one byte + '>>'
SetTimeFrame(l1, l2, v) == <<60, 83, 69, 84, 84, 73, 77, 69, l1, l2, v, 62, 62>>

\* C5: set_date writes year (YY), month (MM), day (DD) in that order and
\* set_time second (SS), minute (MM), hour (HH) in that order; a sub-command is
\* written only when every earlier one was acknowledged with 0xAA, and a call
\* that returns has written exactly the three.
C5_DateTimeOrder ==
    /\ op.name = "set_date" =>
          IsPrefix(wire, <<SetDateFrame(89, 89, op.arg.year - 2000),
                           SetDateFrame(77, 77, op.arg.month),
                           SetDateFrame(68, 68, op.arg.day)>>)
    /\ op.name = "set_time" =>
          IsPrefix(wire, <<SetTimeFrame(83, 83, op.arg.second),
                           SetTimeFrame(77, 77, op.arg.minute),
                           SetTimeFrame(72, 72, op.arg.hour)>>)
    /\ op.name \in {"set_date", "set_time"} =>
          /\ Len(wire) <= step + 1
          /\ (step > 0 /\ pc \in {"loop", "returned"}) => response = <<170>>
          /\ pc = "returned" => Len(wire) = 3 /\ step = 3

C5_Witness ==
    /\ op.name = "set_date"
    /\ pc = "returned"
    /\ wire = <<SetDateFrame(89, 89, 24), SetDateFrame(77, 77, 12),
                SetDateFrame(68, 68, 31)>>

\* a text field of the value is longer than its declared width
HasOverlongText(cfg) ==
    \E i \in TextFields : Len(cfg[config_format[i].name]) > config_format[i].size

\* C8: encoding a value with an over-long (ASCII) text field raises the
\* field-overflow error (construct's PaddingError) and gives no buffer, so
\* set_config on it writes nothing to the channel.
C8_OverlongTextWritesNothing ==
    (op.name = "set_config" /\ HasOverlongText(op.arg)) =>
        /\ pc = "raised"
        /\ err.type = "PaddingError"
        /\ to_write = <<>>
        /\ wire = <<>>

C8_Witness ==
    /\ op.name = "set_config"
    /\ Len(op.arg["SSID"]) = 65
    /\ pc = "raised"

\* the methods that go through at_command, not send_command
AtMethods == {"list_wifi_networks", "disconnect_wifi", "wifi_auto_connect",
              "get_MAC_address", "get_wifi_status"}

\* C9: every send_command writes once, the buffer '<' + command + '>>', then
\* reads until the channel is idle, and writes nothing more whatever it read;
\* with an expected response that differs from what was read it raises an error
\* holding the expected and the read bytes.
C9_OneWriteOneRead ==
    op.name \notin AtMethods =>
        /\ pc = "sent" =>
              /\ Len(wire) = step + 1
              /\ wire[Len(wire)] = <<60>> \o command \o <<62, 62>>
        /\ pc \in {"loop", "returned"} => Len(wire) = step /\ rx = <<>>
        /\ pc = "raised" => Len(wire) \in {step, step + 1} /\ rx = <<>>
        /\ (Finished /\ expected_response # <<>>) =>
              IF response = expected_response
              THEN Len(wire) = step
              ELSE /\ pc = "raised"
                   /\ Len(wire) = step + 1
                   /\ err.type = "ValueError"
                   /\ err.args = <<BytesArg(expected_response), BytesArg(response)>>

C9_Witness ==
    /\ op.name = "wifi_off"
    /\ pc = "raised"
    /\ response = <<85>>
    /\ wire = <<<<60, 87, 105, 70, 105, 79, 70, 70, 62, 62>>>>

\* C11: power_on, power_off and reboot write their one frame and return what
\* was collected, whatever it is (nothing, 0xAA, anything else), never raising;
\* factory_reset returns only when exactly 0xAA was collected and raises
\* otherwise.
C11_NoAckForPowerAndReboot ==
    /\ op.name \in {"power_on", "power_off", "reboot"} =>
          /\ pc # "raised"
          /\ wire = <<CASE op.name = "power_on" ->
                             <<60, 80, 79, 87, 69, 82, 79, 78, 62, 62>>
                        [] op.name = "power_off" ->
                             <<60, 80, 79, 87, 69, 82, 79, 70, 70, 62, 62>>
                        [] op.name = "reboot" ->
                             <<60, 82, 69, 66, 79, 79, 84, 62, 62>>>>
          /\ pc = "returned" => result = [kind |-> "bytes", val |-> response]
    /\ (op.name = "factory_reset" /\ Finished) =>
          /\ pc = "returned" <=> response = <<170>>
          /\ pc = "raised" => err.type = "ValueError"

C11_Witness ==
    /\ op.name = "power_off"
    /\ pc = "returned"
    /\ response = <<85>>
    /\ result = [kind |-> "bytes", val |-> <<85>>]

\* C14: for every date-time of a year in 2000..2255, set_datetime writes the
\* SETDATETIME mnemonic followed by the six raw bytes year-2000, month, day,
\* hour, minute, second, and parse_datetime of those six bytes is the same
\* date-time.
C14_SetDatetimeRawBytes ==
    (op.name = "set_datetime" /\ pc # "idle" /\ op.arg.year \in 2000..2255) =>
        LET six == <<op.arg.year - 2000, op.arg.month, op.arg.day,
                     op.arg.hour, op.arg.minute, op.arg.second>>
            back == parse_datetime(six)
        IN  /\ wire = <<(<<60, 83, 69, 84, 68, 65, 84, 69, 84, 73, 77, 69>> \o six
                            \o <<62, 62>>)>>
            /\ back.ok
            /\ back.value = op.arg

CountMethods == {"get_CPM", "get_CPS", "get_CPML", "get_CPMH", "get_CPSL", "get_CPSH"}

\* the unsigned number of two bytes, most significant first, as a Python int
Word(hi, lo) == [hi |-> 0, lo |-> hi * 256 + lo]

\* C15: with a format, send_command fails (struct.error) when the response is
\* not exactly as long as the format (4 bytes for '!I', 7 for '!HHHx'), returns
\* the one number of a one-field format as a scalar and the three numbers of
\* get_gyro as a tuple; with an expected response too, a response that differs
\* from it gives the mismatch ValueError whatever its length.
C15_FixedWidthFormat ==
    /\ (op.name \in CountMethods /\ Finished) =>
          IF Len(response) = 4
          THEN /\ pc = "returned"
               /\ result = [kind |-> "int",
                            val |-> <<[hi |-> response[1] * 256 + response[2],
                                       lo |-> response[3] * 256 + response[4]]>>]
          ELSE /\ pc = "raised"
               /\ err = [type |-> "struct.error", args |-> <<>>]
    /\ (op.name = "get_gyro" /\ Finished) =>
          IF Len(response) = 7
          THEN /\ pc = "returned"
               /\ result = [kind |-> "tuple",
                            val |-> <<Word(response[1], response[2]),
                                      Word(response[3], response[4]),
                                      Word(response[5], response[6])>>]
          ELSE /\ pc = "raised"
               /\ err = [type |-> "struct.error", args |-> <<>>]
    /\ (/\ op.name \in {"set_date", "set_time"}
        /\ pc = "raised"
        /\ wire # <<>>
        /\ response # <<170>>) =>
          err = [type |-> "ValueError",
                 args |-> <<[type |-> "bytes", value |-> <<170>>],
                            [type |-> "bytes", value |-> response]>>]

C15_Witness ==
    /\ op.name = "get_CPM"
    /\ pc = "raised"
    /\ Len(response) = 5
    /\ err.type = "struct.error"

ResponseMethods == CountMethods \cup {"get_ver", "get_serial", "get_temperature",
                                      "get_battery_voltage", "get_datetime",
                                      "get_config", "get_gyro"}

\* C17 as stated: a read operation that collected no byte fails with a
\* channel-timeout error.
C17_Original_ChannelTimeout ==
    (op.name \in ResponseMethods /\ Finished /\ response = <<>>) =>
        /\ pc = "raised"
        /\ err.type = "ChannelTimeout"

\* C17: there is no channel-timeout error. With no byte collected, get_ver and
\* get_serial return the empty string and get_temperature the empty bytes; the
\* counts reads and get_gyro raise struct.error, get_config raises StreamError,
\* get_datetime and get_battery_voltage raise ValueError.
C17_EmptyResponseOutcomes ==
    /\ err.type # "ChannelTimeout"
    /\ (op.name \in ResponseMethods /\ Finished /\ response = <<>>) =>
          CASE op.name \in {"get_ver", "get_serial"} ->
                  pc = "returned" /\ result = [kind |-> "str", val |-> <<>>]
            [] op.name = "get_temperature" ->
                  pc = "returned" /\ result = [kind |-> "bytes", val |-> <<>>]
            [] op.name \in CountMethods \cup {"get_gyro"} ->
                  pc = "raised" /\ err = [type |-> "struct.error", args |-> <<>>]
            [] op.name = "get_config" ->
                  pc = "raised" /\ err = [type |-> "StreamError", args |-> <<>>]
            [] op.name \in {"get_datetime", "get_battery_voltage"} ->
                  pc = "raised" /\ err = [type |-> "ValueError", args |-> <<>>]

C17_Witness ==
    /\ op.name = "get_ver"
    /\ pc = "returned"
    /\ response = <<>>
    /\ result.kind = "str"

\* the scans whose encryption codes all name a member of the enumeration
KnownScans == {scan \in Scans : \A i \in DOMAIN scan : scan[i].ecn \in 0..8}

\* the record list_wifi_networks should give for one entry of a scan: the member
\* for the code under 'ecn', the values in order under the ten names after it
\* with their quotes removed, None under the names left over
RecordIs(record, entry) ==
    /\ record["ecn"].val = <<entry.ecn>>
    /\ entry.ecn = 0 => record["ecn"].kind = "EncryptionMethod.OPEN"
    /\ entry.ecn = 3 => record["ecn"].kind = "EncryptionMethod.WPA2_PSK"
    /\ entry.ecn = 4 => record["ecn"].kind = "EncryptionMethod.WPA_WPA2_PSK"
    /\ entry.ecn = 8 => record["ecn"].kind = "EncryptionMethod.WAPI_PSK"
    /\ \A j \in 1..10 :
          record[AP_LIST_FIELDS[j + 1]] =
              IF j <= Len(entry.values)
              THEN [kind |-> "str", val |-> entry.values[j].text]
              ELSE [kind |-> "None", val |-> <<>>]

C13_StatusByPosition ==
    \A status \in ApStatuses :
        (/\ op.name = "get_wifi_status"
         /\ Finished
         /\ response = CwjapResponse(status)) =>
            /\ pc = "returned"
            /\ result.kind = "dict"
            /\ result.val["ssid"] = [kind |-> "str", val |-> status[1].text]
            /\ result.val["bssid"] = [kind |-> "str", val |-> status[2].text]
            /\ \A j \in 1..9 :
                  result.val[AP_STATUS_FIELDS[j]] =
                      IF j <= Len(status)
                      THEN [kind |-> "str", val |-> status[j].text]
                      ELSE [kind |-> "None", val |-> <<>>]

\* the one buffer at_command writes for each method: '<AT+' + command + '>>'
AtFrames ==
    [list_wifi_networks |-> {<<60, 65, 84, 43, 67, 87, 76, 65, 80, 62, 62>>},
     disconnect_wifi |-> {<<60, 65, 84, 43, 67, 87, 81, 65, 80, 62, 62>>},
     wifi_auto_connect |-> {<<60, 65, 84, 43, 67, 87, 65, 85, 84, 79, 67, 79, 78, 78, 61, 48, 62, 62>>,
                            <<60, 65, 84, 43, 67, 87, 65, 85, 84, 79, 67, 79, 78, 78, 61, 49, 62, 62>>},
     get_MAC_address |-> {<<60, 65, 84, 43, 67, 73, 80, 83, 84, 65, 77, 65, 67, 63, 62, 62>>},
     get_wifi_status |-> {<<60, 65, 84, 43, 67, 87, 74, 65, 80, 63, 62, 62>>}]

NoCRLFIn(line) == \A k \in 1..(Len(line) - 1) : ~(line[k] = 13 /\ line[k + 1] = 10)

\* C18: at_command writes '<AT+' + command + '>>' once and returns the lines of
\* the response, all of them and in order; list_wifi_networks returns exactly n
\* records for a status line followed by n access-point lines that each end
\* with CRLF.
C18_LinesAndRecordCount ==
    /\ (op.name \in AtMethods /\ pc # "idle") =>
          /\ Len(wire) = 1
          /\ wire[1] \in AtFrames[op.name]
    /\ (op.name \in {"disconnect_wifi", "wifi_auto_connect"} /\ pc = "returned") =>
          /\ result.kind = "list"
          /\ Join(result.val, CRLF) = response
          /\ \A i \in DOMAIN result.val : NoCRLFIn(result.val[i])
    /\ \A scan \in KnownScans :
          (/\ op.name = "list_wifi_networks"
           /\ Finished
           /\ response = CwlapResponse(scan, TRUE)) =>
              /\ pc = "returned"
              /\ result.kind = "list"
              /\ Len(result.val) = Len(scan)

(***************************************************************************)
(* Properties of the read loop, checked under SpecRead                     *)
(***************************************************************************)
\* C19: read_all returns the bytes read before the first empty read, in the
\* order of arrival, none dropped and none twice; the loop ends at an empty
\* read and only there, so it ends once the device stays silent for one read,
\* and not at a read that finds a byte.
C19_ReadAllUntilSilence ==
    /\ [](r_pc = "reading" => r_buffer \o r_line = r_sent)
    /\ [](r_pc = "done" => r_response \o r_line = r_sent)
    /\ [][(r_pc = "reading" /\ r_pc' = "done") =>
              (r_line = <<>> /\ r_response' = r_buffer)]_vars
    /\ [][(r_pc = "reading" /\ r_line = <<>> /\ r_line' = <<>>) =>
              r_pc' = "done"]_vars
    /\ [][(r_pc = "reading" /\ r_line # <<>>) => r_pc' = "reading"]_vars
    /\ (r_pc = "reading") ~> (r_pc = "done")

C19_Witness ==
    /\ r_pc = "done"
    /\ Len(r_response) = 2
    /\ r_response = <<r_sent[1], r_sent[2]>>
    /\ Len(r_sent) = 3
    /\ r_line = <<r_sent[3]>>

(***************************************************************************)
(* Properties of the codec, checked under SpecCodec                        *)
(***************************************************************************)
Parsed == raw_config # <<>> /\ config # Pending

Rebuilt == raw_config # <<>> /\ built # Pending

\* the bytes of the six text fields (offsets 69..324) are ASCII and the 128
\* reserved bytes (offsets 384..511) hold the fill byte 0xFF
WellFormedFrom(b, first) ==
    /\ \A i \in 70..325 : i <= Len(b) => b[i] < 128
    /\ \A i \in (first + 1)..Len(b) : b[i] = 255

\* C6 as stated: a well-formed 256-byte buffer decodes, and encoding the decoded
\* value gives the buffer back.
C6_Original_RoundTrip256 ==
    (Len(raw_config) = 256 /\ WellFormedFrom(raw_config, 256)) =>
        /\ Parsed => config.ok
        /\ Rebuilt => built = Success(raw_config)

\* C6 amended: the record is 512 bytes.  A 512-byte buffer whose text regions
\* are ASCII and whose reserved bytes are 0xFF decodes, and encoding the decoded
\* value gives the buffer back byte for byte; a 256-byte buffer does not decode.
C6_RoundTrip512 ==
    /\ (Len(raw_config) = 512 /\ WellFormedFrom(raw_config, 384)) =>
          /\ Parsed => config.ok
          /\ Rebuilt => built = Success(raw_config)
    /\ (Len(raw_config) = 256 /\ Parsed) => ~config.ok

C6_Witness ==
    /\ Len(raw_config) = 512
    /\ raw_config[128] = 0
    /\ raw_config[129] = 1
    /\ raw_config[20] = 255
    /\ built = Success(raw_config)

\* the six text fields: name, offset of the region in the record, width
TextRegions == {[name |-> "SSID", at |-> 69, width |-> 64],
                [name |-> "password", at |-> 133, width |-> 64],
                [name |-> "website", at |-> 197, width |-> 32],
                [name |-> "URL", at |-> 229, width |-> 32],
                [name |-> "user_ID", at |-> 261, width |-> 32],
                [name |-> "counter_ID", at |-> 293, width |-> 32]}

RegionOf(b, r) == [i \in 1..r.width |-> b[r.at + i]]

\* s up to, not including, its first zero
UpToFirstNull(s) ==
    LET nuls == {i \in DOMAIN s : s[i] = 0}
    IN  IF nuls = {} THEN s ELSE [i \in 1..(Min(nuls) - 1) |-> s[i]]

\* s up to and including its last byte that is not zero
WithoutTrailingNulls(s) ==
    LET last == IF \A i \in DOMAIN s : s[i] = 0 THEN 0
                ELSE CHOOSE i \in DOMAIN s :
                        s[i] # 0 /\ \A j \in DOMAIN s : j > i => s[j] = 0
    IN  [i \in 1..last |-> s[i]]

NumericNames == {config_format[i].name : i \in {j \in DOMAIN config_format :
                                                  config_format[j].kind \in IntKinds}}

\* text fields are written as their bytes followed by zeros up to the width
TextEncodedPadded(v, bytes) ==
    \A r \in TextRegions :
        /\ Len(v[r.name]) <= r.width
        /\ \A i \in 1..r.width :
              bytes[r.at + i] = IF i <= Len(v[r.name]) THEN v[r.name][i] ELSE 0

\* C16 as stated: a text field decodes as its region cut at the first null byte;
\* it encodes as its bytes followed by nulls; decoding an encoded value gives the
\* numeric fields back and the text fields with trailing padding removed.
C16_Original_TruncatedAtFirstNull ==
    /\ (Parsed /\ config.ok) =>
          \A r \in TextRegions :
              config.value[r.name] = UpToFirstNull(RegionOf(raw_config, r))
    /\ (config.ok /\ built.ok) => TextEncodedPadded(config.value, built.value)
    /\ (built.ok /\ reparsed # Pending) =>
          /\ reparsed.ok
          /\ \A n \in NumericNames : reparsed.value[n] = config.value[n]
          /\ \A r \in TextRegions :
                reparsed.value[r.name] = WithoutTrailingNulls(config.value[r.name])

\* C16 amended: a text field decodes as its region without its trailing null
\* bytes (nulls inside the text are kept); it encodes as its bytes followed by
\* nulls up to the width; decoding an encoded value gives the numeric fields back
\* and the text fields without their trailing nulls.
C16_TrailingNullsRemoved ==
    /\ (Parsed /\ config.ok) =>
          \A r \in TextRegions :
              config.value[r.name] = WithoutTrailingNulls(RegionOf(raw_config, r))
    /\ (config.ok /\ built.ok) => TextEncodedPadded(config.value, built.value)
    /\ (built.ok /\ reparsed # Pending) =>
          /\ reparsed.ok
          /\ \A n \in NumericNames : reparsed.value[n] = config.value[n]
          /\ \A r \in TextRegions :
                reparsed.value[r.name] = WithoutTrailingNulls(config.value[r.name])

C16_Witness ==
    /\ raw_config = <<>>
    /\ config.ok
    /\ config.value["SSID"] = <<97, 0, 98, 0>>
    /\ built.ok
    /\ reparsed.ok
    /\ reparsed.value["SSID"] = <<97, 0, 98>>

\* C7 as stated: every encoded configuration buffer is 256 bytes long, the
\* cursor after the last field of the table.
C7_Original_Cursor256 ==
    built.ok => Len(built.value) = 256 /\ sizeof = 256

\* C7 amended: walking the table from cursor 0, each field advancing the cursor
\* by its width, the final cursor is 512, and every encoded configuration
\* buffer is exactly 512 bytes long.
C7_Cursor512 ==
    /\ Cursor[0] = 0
    /\ \A i \in DOMAIN config_format :
          /\ config_format[i].size >= 1
          /\ Cursor[i] = Cursor[i - 1] + config_format[i].size
    /\ built.ok => Len(built.value) = 512 /\ sizeof = 512

C7_Witness ==
    /\ raw_config = <<>>
    /\ built.ok
    /\ Len(config.value["SSID"]) = 64

====
